---- MODULE Spec2Model ----
(***************************************************************************)
(* Model of the taiga note / action / partial-transaction core.            *)
(*                                                                         *)
(* Field elements, hashes and commitments are symbolic terms: a tuple      *)
(* whose first component is a string tag and whose other components are    *)
(* the hashed inputs.  Two terms are equal exactly when they were built    *)
(* from equal inputs (collision resistance).  Group elements are linear    *)
(* combinations of the two independent generators G (the base generator)   *)
(* and R (NOTE_COMMITMENT_R_GENERATOR).                                    *)
(***************************************************************************)
EXTENDS Integers, Sequences, FiniteSets, TLC

(* ----------------------------- bounds ---------------------------------- *)
\* depth of the commitment tree used by the model
TAIGA_COMMITMENT_TREE_DEPTH == 2
\* largest note value drawn for an OutputInfo / spent note
MaxValue == 1
\* number of distinct caller-supplied randomness seeds
MaxSeed == 2

(* --------------------------- program constants ------------------------- *)
NUM_NOTE == 2

(* ------------------------------ terms ---------------------------------- *)
None == <<"none">>

\* the k-th field element drawn from the randomness source seeded with seed
Rand(seed, k) == <<"rand", seed, k>>

Seeds == 1..MaxSeed

\* a field element fixed by the caller
Fixed(n) == <<"fixed", n>>

\* a caller-supplied randomness source: its seed and how much was consumed
RngNew(seed) == [seed |-> seed, ctr |-> 0]
RngDraw(rng) == Rand(rng.seed, rng.ctr)
RngNext(rng) == [rng EXCEPT !.ctr = @ + 1]

(* ------------------- user send address (action.rs) --------------------- *)
\* UserSendAddress: either the nullifier key is known (open) or only a
\* commitment to it (closed)
SendOpen(nk) == <<"open", nk>>
SendClosed(c) == <<"closed", c>>

\* UserSendAddress::get_nk : Option<nk>
SendGetNk(send_com) == IF send_com[1] = "open" THEN send_com[2] ELSE None

\* the closed form that enters the note commitment
SendGetClosed(send_com) ==
    IF send_com[1] = "open" THEN <<"com_nk", send_com[2]>> ELSE send_com[2]

(* ------------------------ notes of action.rs --------------------------- *)
\* derive_psi(random_seed, rho)
DerivePsi(rcm, rho) == <<"psi", rcm, rho>>

\* Note::new(user, token, value, rho, data, rcm)
ActionNote_new(user, token, value, rho, data, rcm) ==
    [user |-> user, token |-> token, value |-> value, rho |-> rho,
     psi |-> DerivePsi(rcm, rho), data |-> data, rcm |-> rcm]

\* Note::commitment : a point, binding every field, blinded by rcm
ActionNote_commitment(note) ==
    <<"cm", SendGetClosed(note.user.send_com), note.user.recv_vp,
      note.token.token_vp, note.value, note.rho, note.psi, note.data,
      note.rcm>>

\* NoteCommitment::get_x : the x coordinate of the commitment point
Commitment_get_x(cm) == <<"x", cm>>

\* Nullifier::derive_native(nk, rho, psi, cm)
Nullifier_derive_native(nk, rho, psi, cm) == <<"nf", nk, rho, psi, cm>>

(* ---------------------------- merkle path ------------------------------ *)
\* one level of the tree hash; the bit tells whether the current node is
\* the right child
MerkleLevel(cur, sibling, is_right) ==
    IF is_right THEN <<"H", sibling, cur>> ELSE <<"H", cur, sibling>>

RECURSIVE MerkleFold(_, _, _)
MerkleFold(path, cur, i) ==
    IF i > Len(path) THEN cur
    ELSE MerkleFold(path, MerkleLevel(cur, path[i][1], path[i][2]), i + 1)

\* MerklePath::root(leaf) : fold the path bottom-up
MerklePath_root(path, leaf) == MerkleFold(path, leaf, 1)

\* MerklePath::get_path
MerklePath_get_path(path) == path

Siblings == {<<"sib", 1>>, <<"sib", 2>>}
MerklePaths == [1..TAIGA_COMMITMENT_TREE_DEPTH -> Siblings \X BOOLEAN]

(* ------------------------ SpendInfo / OutputInfo ----------------------- *)
\* SpendInfo::new that forgets to fold the path over the leaf
SpendInfo_new_nofold(note, merkle_path) ==
    LET cm_node == Commitment_get_x(ActionNote_commitment(note))
    IN  [note |-> note, auth_path |-> MerklePath_get_path(merkle_path),
         root |-> cm_node]

\* SpendInfo::new(note, merkle_path)
SpendInfo_new(note, merkle_path) ==
    LET cm_node == Commitment_get_x(ActionNote_commitment(note))
        root == MerklePath_root(merkle_path, cm_node)
        auth_path == MerklePath_get_path(merkle_path)
    IN  [note |-> note, auth_path |-> auth_path, root |-> root]

\* OutputInfo::new
OutputInfo_new(addr_send_closed, addr_recv_vp, addr_token_vp, value, data) ==
    [addr_send_closed |-> addr_send_closed, addr_recv_vp |-> addr_recv_vp,
     addr_token_vp |-> addr_token_vp, value |-> value, data |-> data]

\* ActionInfo::new
ActionInfo_new(spend, output) == [spend |-> spend, output |-> output]

(* ----------------------------- inputs ---------------------------------- *)
VpDescs == {<<"vp", 1>>, <<"vp", 2>>}
SendAddrs == {SendOpen(<<"nk", 1>>), SendClosed(<<"com_nk", <<"nk", 1>>>>)}
Rhos == {<<"rho", 1>>, <<"rho", 2>>}

SpendNotes ==
    { ActionNote_new([send_com |-> s, recv_vp |-> <<"vp", 1>>],
                     [token_vp |-> <<"vp", 2>>], v, r, <<"data", 0>>,
                     <<"rcm", 0>>) :
        s \in SendAddrs, v \in 0..MaxValue, r \in Rhos }

OutputInfos ==
    { OutputInfo_new(SendClosed(<<"com_nk", <<"nk", 2>>>>), <<"vp", 1>>, t, v,
                     <<"data", 1>>) :
        t \in VpDescs, v \in 0..MaxValue }

(* ============ notes, tokens and keys of the transaction layer ========== *)
\* largest amount of a token offered in a generic token swap
MaxTokenValue == 2

\* compressed verifying keys of the circuits the examples use
COMPRESSED_TOKEN_VK == <<"vk", "token">>
COMPRESSED_TOKEN_AUTH_VK == <<"vk", "token_auth">>
COMPRESSED_RECEIVER_VK == <<"vk", "receiver">>
COMPRESSED_TRIVIAL_VP_VK == <<"vk", "trivial">>
COMPRESSED_INTENT_VK == <<"vk", "partial_fulfillment_intent">>

\* draw number k after the position of the randomness source
Draw(rng, k) == Rand(rng.seed, rng.ctr + k)
\* the source after n draws
Advance(rng, n) == [rng EXCEPT !.ctr = @ + n]
\* scalar draw number k: source 1 is the all-zero source, the others give
\* pairwise distinct non-zero scalars
DrawScalar(rng, k) == (rng.seed - 1) * (rng.ctr + k + 1)

\* NullifierKeyContainer::Key / ::Commitment
NkKey(nk) == <<"Key", nk>>
NkCommitment(c) == <<"Commitment", c>>
\* NullifierKeyContainer::random_key
Nk_random_key(rng) == NkKey(<<"nk", Draw(rng, 0)>>)
\* NullifierKeyContainer::get_nk
Nk_get_nk(c) == IF c[1] = "Key" THEN c[2] ELSE None
\* NullifierKeyContainer::get_commitment
Nk_get_commitment(c) == IF c[1] = "Key" THEN <<"com_nk", c[2]>> ELSE c[2]
\* NullifierKeyContainer::to_commitment
Nk_to_commitment(c) == NkCommitment(Nk_get_commitment(c))

\* Token::new(name, value)
Token_new(name, value) == [name |-> name, value |-> value]
\* Token::encode_name
Token_encode_name(token) == <<"name", token.name>>

\* the public key generator * sk
PublicKey(sk) == <<"pk", sk>>
\* TokenAuthorization::new(pk, vk)
TokenAuthorization_new(pk, vk) == [pk |-> pk, vk |-> vk]
\* TokenAuthorization::from_sk_vk(sk, vk)
TokenAuthorization_from_sk_vk(sk, vk) == [pk |-> PublicKey(sk), vk |-> vk]
\* TokenAuthorization::to_app_data_dynamic : poseidon(pk.x, pk.y, vk, receiver)
TokenAuthorization_to_app_data_dynamic(auth) ==
    <<"poseidon", auth.pk, auth.vk, COMPRESSED_RECEIVER_VK>>

\* Note::new(app_vk, app_data_static, app_data_dynamic, value, nk_container, rho,
\*           is_merkle_checked, rseed)
Note_new(app_vk, app_data_static, app_data_dynamic, value, nk_container, rho, is_merkle_checked, rseed) ==
    [app_vk |-> app_vk, app_data_static |-> app_data_static,
     app_data_dynamic |-> app_data_dynamic, value |-> value,
     nk_container |-> nk_container, rho |-> rho,
     psi |-> <<"psi", rseed, rho>>, rcm |-> <<"rcm", rseed, rho>>,
     is_merkle_checked |-> is_merkle_checked]

\* Note::commitment
Note_commitment(note) ==
    <<"ncm", note.app_vk, note.app_data_static, note.app_data_dynamic,
      note.value, Nk_get_commitment(note.nk_container), note.rho, note.psi,
      note.is_merkle_checked, note.rcm>>

\* Note::get_nf : Option<Nullifier>, None without the key
Note_get_nf(note) ==
    LET nk == Nk_get_nk(note.nk_container)
    IN  IF nk = None THEN None
        ELSE Nullifier_derive_native(nk, note.rho, note.psi,
                                     Note_commitment(note))

\* Note::random_padding_input_note(rng) : three draws
Note_random_padding_input_note(rng) ==
    Note_new(COMPRESSED_TRIVIAL_VP_VK, <<"zero">>, <<"zero">>, 0,
             NkKey(<<"nk", Draw(rng, 0)>>), Draw(rng, 1), FALSE, Draw(rng, 2))

\* a random_padding_output_note that carries one unit of value
Note_random_padding_output_note_valued(rng, rho) ==
    Note_new(COMPRESSED_TRIVIAL_VP_VK, <<"zero">>, <<"zero">>, 1,
             NkCommitment(<<"com_nk", <<"nk", Draw(rng, 0)>>>>), rho, FALSE,
             Draw(rng, 1))

\* Note::random_padding_output_note(rng, rho) : two draws
Note_random_padding_output_note(rng, rho) ==
    Note_new(COMPRESSED_TRIVIAL_VP_VK, <<"zero">>, <<"zero">>, 0,
             NkCommitment(<<"com_nk", <<"nk", Draw(rng, 0)>>>>), rho, FALSE,
             Draw(rng, 1))

\* MerklePath::random(rng, depth) : depth draws
MerklePath_random(rng, depth) ==
    [i \in 1..depth |-> <<Draw(rng, i - 1), (rng.seed + i) % 2 = 0>>]

(* ------------------------------ group ---------------------------------- *)
\* a point a*G + b*R of the group, G and R independent generators
PointIdentity == [g |-> 0, r |-> 0]
PointGenerator == [g |-> 1, r |-> 0]
NOTE_COMMITMENT_R_GENERATOR == [g |-> 0, r |-> 1]
PointAdd(p, q) == [g |-> p.g + q.g, r |-> p.r + q.r]
PointSub(p, q) == [g |-> p.g - q.g, r |-> p.r - q.r]
PointMul(p, k) == [g |-> p.g * k, r |-> p.r * k]

RECURSIVE PointSum(_)
PointSum(ps) ==
    IF ps = <<>> THEN PointIdentity ELSE PointAdd(Head(ps), PointSum(Tail(ps)))

\* derivate_value_base(is_normal, app_address, data)
derivate_value_base(is_normal, app_address, data) == PointGenerator

\* NetValueCommitment::new with the operands of the difference swapped in sign
NetValueCommitment_new_plus(input_note, output_note, blind_r) ==
    PointAdd(PointAdd(PointMul(PointGenerator, input_note.value),
                      PointMul(PointGenerator, output_note.value)),
             PointMul(NOTE_COMMITMENT_R_GENERATOR, blind_r))

\* NetValueCommitment::new taking the input note's value on both sides
NetValueCommitment_new_invalue(input_note, output_note, blind_r) ==
    PointAdd(PointSub(PointMul(PointGenerator, input_note.value),
                      PointMul(PointGenerator, input_note.value)),
             PointMul(NOTE_COMMITMENT_R_GENERATOR, blind_r))

\* NetValueCommitment::new(input_note, output_note, blind_r); the note's
\* is_normal, app and data are its is_merkle_checked, app_vk, app_data_static
NetValueCommitment_new(input_note, output_note, blind_r) ==
    LET base_input == derivate_value_base(input_note.is_merkle_checked,
                          input_note.app_vk, input_note.app_data_static)
        base_output == derivate_value_base(output_note.is_merkle_checked,
                          output_note.app_vk, output_note.app_data_static)
    IN  PointAdd(PointSub(PointMul(base_input, input_note.value),
                          PointMul(base_output, output_note.value)),
                 PointMul(NOTE_COMMITMENT_R_GENERATOR, blind_r))

(* ------------------- proving info and partial transactions ------------- *)
\* Note::calculate_root(path) : the root of the path over the commitment
Note_calculate_root(note, merkle_path) ==
    MerklePath_root(merkle_path, Note_commitment(note))

\* InputNoteProvingInfo::new(note, merkle_path, anchor, app_vp, dynamic_vps);
\* without an anchor the root of the path is taken
InputNoteProvingInfo_new(note, merkle_path, anchor, app_vp, dynamic_vps) ==
    [note |-> note, merkle_path |-> merkle_path,
     anchor |-> IF anchor = None THEN Note_calculate_root(note, merkle_path)
                ELSE anchor,
     app_vp |-> app_vp, dynamic_vps |-> dynamic_vps]

\* OutputNoteProvingInfo::new(note, app_vp, dynamic_vps)
OutputNoteProvingInfo_new(note, app_vp, dynamic_vps) ==
    [note |-> note, app_vp |-> app_vp, dynamic_vps |-> dynamic_vps]

\* InputNoteProvingInfo::create_padding_note_proving_info
InputPaddingProvingInfo(padding_note, merkle_path, anchor) ==
    InputNoteProvingInfo_new(padding_note, merkle_path, anchor, "trivial", <<>>)

\* OutputNoteProvingInfo::create_padding_note_proving_info
OutputPaddingProvingInfo(padding_note) ==
    OutputNoteProvingInfo_new(padding_note, "trivial", <<>>)

\* generate_input_token_note_proving_info : anchor taken from the path
generate_input_token_note_proving_info(input_note, merkle_path) ==
    InputNoteProvingInfo_new(input_note, merkle_path, None, "token", <<>>)

\* generate_output_token_note_proving_info
generate_output_token_note_proving_info(output_note) ==
    OutputNoteProvingInfo_new(output_note, "token", <<>>)

RECURSIVE IntSum(_)
IntSum(xs) == IF xs = <<>> THEN 0 ELSE Head(xs) + IntSum(Tail(xs))

\* the partial transaction made of the proving infos, one action per
\* (input, output) pair with its own blinding scalar, the proofs of the
\* action circuits and of the validity predicates of every note
PtxOf(input_info, output_info, rng) ==
    LET n == Len(input_info)
        rcv == [i \in 1..n |-> DrawScalar(rng, i - 1)]
    IN  [actions |->
            [i \in 1..n |->
                [anchor |-> input_info[i].anchor,
                 nf |-> Note_get_nf(input_info[i].note),
                 cm |-> Note_commitment(output_info[i].note),
                 cv_net |-> NetValueCommitment_new(input_info[i].note,
                                                   output_info[i].note, rcv[i]),
                 proof_ok |-> TRUE]],
         inputs |->
            [i \in 1..n |->
                [note |-> input_info[i].note, app_vp |-> input_info[i].app_vp,
                 merkle_path |-> input_info[i].merkle_path,
                 dynamic_vps |-> input_info[i].dynamic_vps, proof_ok |-> TRUE]],
         outputs |->
            [i \in 1..Len(output_info) |->
                [note |-> output_info[i].note,
                 app_vp |-> output_info[i].app_vp,
                 dynamic_vps |-> output_info[i].dynamic_vps,
                 proof_ok |-> TRUE]],
         binding_sig_r |-> IntSum(rcv)]

\* a construction that failed with the named error
PtxError(e) == [error |-> e]

\* a build that takes every supplied anchor as it comes
ShieldedPartialTransaction_build_nocheck(input_info, output_info, rng) ==
    PtxOf(input_info, output_info, rng)

\* ShieldedPartialTransaction::build(input_info, output_info, rng): the
\* anchor of every membership-checked input note must be the root of its
\* path over its commitment
ShieldedPartialTransaction_build(input_info, output_info, rng) ==
    IF \E i \in 1..Len(input_info) :
          /\ input_info[i].note.is_merkle_checked
          /\ input_info[i].anchor #
                Note_calculate_root(input_info[i].note, input_info[i].merkle_path)
    THEN PtxError("MerkleInconsistencyError")
    ELSE PtxOf(input_info, output_info, rng)

NoPtx == [none |-> TRUE]

(* ------------------------------ token.rs ------------------------------- *)
\* create_random_token_note(rng, token, rho, nk_container, auth) : one draw
create_random_token_note(rng, token, rho, nk_container, auth) ==
    Note_new(COMPRESSED_TOKEN_VK, Token_encode_name(token),
             TokenAuthorization_to_app_data_dynamic(auth), token.value,
             nk_container, rho, TRUE, Draw(rng, 0))

\* lines 53-76 with the output token note copied into the padding slot
SwapPtxNotes_nopad(rng, input_token, input_auth_sk, input_nk, output_token, output_auth_pk, output_nk_com) ==
    LET input_auth == TokenAuthorization_from_sk_vk(input_auth_sk,
                                                     COMPRESSED_TOKEN_AUTH_VK)
        input_note == create_random_token_note(Advance(rng, 1), input_token,
                                               Draw(rng, 0), input_nk,
                                               input_auth)
        output_auth == TokenAuthorization_new(output_auth_pk,
                                              COMPRESSED_TOKEN_AUTH_VK)
        output_note == create_random_token_note(Advance(rng, 2), output_token,
                                                Note_get_nf(input_note),
                                                output_nk_com, output_auth)
        padding_input_note == Note_random_padding_input_note(Advance(rng, 3))
    IN  [input_notes |-> <<input_note, padding_input_note>>,
         output_notes |-> <<output_note, output_note>>]

\* create_token_swap_ptx, lines 53-76: the input and output note arrays
SwapPtxNotes(rng, input_token, input_auth_sk, input_nk, output_token, output_auth_pk, output_nk_com) ==
    LET input_auth == TokenAuthorization_from_sk_vk(input_auth_sk,
                                                     COMPRESSED_TOKEN_AUTH_VK)
        rho == Draw(rng, 0)
        input_note == create_random_token_note(Advance(rng, 1), input_token,
                                               rho, input_nk, input_auth)
        input_note_nf == Note_get_nf(input_note)
        output_auth == TokenAuthorization_new(output_auth_pk,
                                              COMPRESSED_TOKEN_AUTH_VK)
        output_note == create_random_token_note(Advance(rng, 2), output_token,
                                                input_note_nf, output_nk_com,
                                                output_auth)
        padding_input_note == Note_random_padding_input_note(Advance(rng, 3))
        padding_input_note_nf == Note_get_nf(padding_input_note)
        padding_output_note ==
            Note_random_padding_output_note(Advance(rng, 6),
                                            padding_input_note_nf)
    IN  [input_notes |-> <<input_note, padding_input_note>>,
         output_notes |-> <<output_note, padding_output_note>>]

\* number of field draws of create_token_swap_ptx before the build
SwapPtxDraws == 9 + TAIGA_COMMITMENT_TREE_DEPTH

\* create_token_swap_ptx(rng, input_token, input_auth_sk, input_nk,
\*   output_token, output_auth_pk, output_nk_com); NoPtx when the unwrap of
\* the input note's nullifier (line 60) panics
create_token_swap_ptx(rng, input_token, input_auth_sk, input_nk, output_token, output_auth_pk, output_nk_com) ==
    LET notes == SwapPtxNotes(rng, input_token, input_auth_sk, input_nk,
                              output_token, output_auth_pk, output_nk_com)
        input_notes == notes.input_notes
        output_notes == notes.output_notes
        merkle_path == MerklePath_random(Advance(rng, 8),
                                         TAIGA_COMMITMENT_TREE_DEPTH)
        anchor == Draw(rng, 8 + TAIGA_COMMITMENT_TREE_DEPTH)
        input_note_proving_info ==
            generate_input_token_note_proving_info(input_notes[1], merkle_path)
        output_note_proving_info ==
            generate_output_token_note_proving_info(output_notes[1])
        padding_input_note_proving_info ==
            InputPaddingProvingInfo(input_notes[2], merkle_path, anchor)
        padding_output_note_proving_info ==
            OutputPaddingProvingInfo(output_notes[2])
    IN  IF Note_get_nf(input_notes[1]) = None THEN NoPtx
        ELSE ShieldedPartialTransaction_build(
                 <<input_note_proving_info, padding_input_note_proving_info>>,
                 <<output_note_proving_info, padding_output_note_proving_info>>,
                 Advance(rng, SwapPtxDraws))

(* ------------------- partial_fulfillment_token_swap.rs ----------------- *)
\* Swap::random(rng, sell, buy, auth) : the sell note owned by a fresh key;
\* three draws
Swap_random(rng, sell, buy, auth) ==
    [sell |-> [token |-> sell,
               note |-> create_random_token_note(Advance(rng, 2), sell,
                            Draw(rng, 0), NkKey(<<"nk", Draw(rng, 1)>>), auth)],
     buy |-> buy, auth |-> auth]

\* Swap::create_intent_note(rng) : value 1, not membership-checked, chained to
\* the sell note; one draw
Swap_create_intent_note(rng, swap) ==
    Note_new(COMPRESSED_INTENT_VK,
             <<"intent", Token_encode_name(swap.sell.token),
               swap.sell.token.value, Token_encode_name(swap.buy),
               swap.buy.value>>,
             <<"zero">>, 1, swap.sell.note.nk_container,
             Note_get_nf(swap.sell.note), FALSE, Draw(rng, 0))

\* Swap::fill(rng, intent_note, offer) : the offered amount goes to the intent
\* owner, the unmatched part of the sold amount is returned; five draws
Swap_fill(rng, swap, intent_note, offer) ==
    LET ratio == swap.buy.value \div swap.sell.token.value
        owner_nk == Nk_to_commitment(swap.sell.note.nk_container)
        offer_note == create_random_token_note(rng, offer,
                          Note_get_nf(intent_note), owner_nk, swap.auth)
        input_padding_note == Note_random_padding_input_note(Advance(rng, 1))
        padding_nf == Note_get_nf(input_padding_note)
        filled_value == offer.value \div ratio
        returned_token == Token_new(swap.sell.token.name,
                                    swap.sell.token.value - filled_value)
        returned_note ==
            IF offer.value < swap.buy.value
            THEN create_random_token_note(Advance(rng, 4), returned_token,
                                          padding_nf, owner_nk, swap.auth)
            ELSE Note_random_padding_output_note(Advance(rng, 4), padding_nf)
    IN  [input_notes |-> <<intent_note, input_padding_note>>,
         output_notes |-> <<offer_note, returned_note>>]

\* number of field draws of create_token_intent_ptx before the build
IntentPtxDraws == 10 + TAIGA_COMMITMENT_TREE_DEPTH

\* create_token_intent_ptx(rng, sell, buy, input_auth_sk) : (ptx, swap)
create_token_intent_ptx(rng, sell, buy, input_auth_sk) ==
    LET input_auth == TokenAuthorization_from_sk_vk(input_auth_sk,
                                                     COMPRESSED_TOKEN_AUTH_VK)
        swap == Swap_random(rng, sell, buy, input_auth)
        intent_note == Swap_create_intent_note(Advance(rng, 3), swap)
        padding_input_note == Note_random_padding_input_note(Advance(rng, 4))
        padding_input_note_nf == Note_get_nf(padding_input_note)
        padding_output_note ==
            Note_random_padding_output_note(Advance(rng, 7),
                                            padding_input_note_nf)
        input_notes == <<swap.sell.note, padding_input_note>>
        output_notes == <<intent_note, padding_output_note>>
        merkle_path == MerklePath_random(Advance(rng, 9),
                                         TAIGA_COMMITMENT_TREE_DEPTH)
        anchor == Draw(rng, 9 + TAIGA_COMMITMENT_TREE_DEPTH)
        input_note_proving_info ==
            generate_input_token_note_proving_info(swap.sell.note, merkle_path)
        intent_note_proving_info ==
            OutputNoteProvingInfo_new(intent_note,
                                      "partial_fulfillment_intent", <<>>)
        padding_input_note_proving_info ==
            InputPaddingProvingInfo(padding_input_note, merkle_path, anchor)
        padding_output_note_proving_info ==
            OutputPaddingProvingInfo(padding_output_note)
    IN  [ptx |-> ShieldedPartialTransaction_build(
                    <<input_note_proving_info,
                      padding_input_note_proving_info>>,
                    <<intent_note_proving_info,
                      padding_output_note_proving_info>>,
                    Advance(rng, IntentPtxDraws)),
         swap |-> swap]

\* number of field draws of consume_token_intent_ptx before the build
ConsumePtxDraws == 7 + TAIGA_COMMITMENT_TREE_DEPTH

\* consume_token_intent_ptx(rng, swap, offer, output_auth_pk).  returned_delta
\* is added to the returned note's amount before the proving info is made; the
\* program runs with returned_delta = 0
consume_token_intent_ptx(rng, swap, offer, output_auth_pk, returned_delta) ==
    LET intent_note == Swap_create_intent_note(rng, swap)
        filled == Swap_fill(Advance(rng, 1), swap, intent_note, offer)
        input_notes == filled.input_notes
        bought_note == filled.output_notes[1]
        returned_note ==
            [filled.output_notes[2] EXCEPT !.value = @ + returned_delta]
        padding_input_note == input_notes[2]
        merkle_path == MerklePath_random(Advance(rng, 6),
                                         TAIGA_COMMITMENT_TREE_DEPTH)
        anchor == Draw(rng, 6 + TAIGA_COMMITMENT_TREE_DEPTH)
        intent_note_proving_info ==
            InputNoteProvingInfo_new(intent_note, merkle_path, anchor,
                                     "partial_fulfillment_intent", <<>>)
        bought_note_proving_info ==
            generate_output_token_note_proving_info(bought_note)
        padding_input_note_proving_info ==
            InputPaddingProvingInfo(padding_input_note, merkle_path, anchor)
        returned_note_proving_info ==
            generate_output_token_note_proving_info(returned_note)
    IN  ShieldedPartialTransaction_build(
            <<intent_note_proving_info, padding_input_note_proving_info>>,
            <<bought_note_proving_info, returned_note_proving_info>>,
            Advance(rng, ConsumePtxDraws))

(* ------------------- a spend with a supplied anchor -------------------- *)
\* a caller spends one btc of its own, handing InputNoteProvingInfo::new the
\* anchor itself: the root of the path over the note, or an unrelated field
\* element; the padding pair is made as in create_token_swap_ptx
spend_token_with_anchor(rng, is_merkle_checked, anchor_is_root) ==
    LET sk == <<"sk", Fixed(1)>>
        auth == TokenAuthorization_from_sk_vk(sk, COMPRESSED_TOKEN_AUTH_VK)
        token == Token_new("btc", 1)
        input_note ==
            Note_new(COMPRESSED_TOKEN_VK, Token_encode_name(token),
                     TokenAuthorization_to_app_data_dynamic(auth), token.value,
                     NkKey(<<"nk", Fixed(1)>>), Draw(rng, 0), is_merkle_checked,
                     Draw(rng, 1))
        output_note ==
            create_random_token_note(Advance(rng, 2), token,
                                     Note_get_nf(input_note),
                                     NkCommitment(<<"com_nk", <<"nk", Fixed(2)>>>>),
                                     auth)
        padding_input_note == Note_random_padding_input_note(Advance(rng, 3))
        padding_output_note ==
            Note_random_padding_output_note(Advance(rng, 6),
                                            Note_get_nf(padding_input_note))
        merkle_path == MerklePath_random(Advance(rng, 8),
                                         TAIGA_COMMITMENT_TREE_DEPTH)
        anchor == Draw(rng, 8 + TAIGA_COMMITMENT_TREE_DEPTH)
        supplied == IF anchor_is_root
                    THEN Note_calculate_root(input_note, merkle_path)
                    ELSE anchor
    IN  ShieldedPartialTransaction_build(
            <<InputNoteProvingInfo_new(input_note, merkle_path, supplied,
                                       "token", <<>>),
              InputPaddingProvingInfo(padding_input_note, merkle_path, anchor)>>,
            <<generate_output_token_note_proving_info(output_note),
              OutputPaddingProvingInfo(padding_output_note)>>,
            Advance(rng, SwapPtxDraws))

(* ------------------------------ transaction ---------------------------- *)
\* Transaction::build(rng, shielded_bundle, transparent_bundle): the bundle
\* and the binding key, the sum of the bundle's blinding scalars
Transaction_build(shielded_bundle) ==
    [shielded |-> shielded_bundle,
     bsk |-> IntSum([i \in 1..Len(shielded_bundle) |->
                        shielded_bundle[i].binding_sig_r])]

\* draws consumed by one partial transaction of the swap scenario
ScenarioStride == 20 + 2 * TAIGA_COMMITMENT_TREE_DEPTH

\* create_token_swap_transaction(rng) : Alice's intent ptx, Bob's swap ptx and
\* the solver's ptx in one transaction
create_token_swap_transaction(rng, returned_delta) ==
    LET alice_auth_sk == <<"sk", Draw(rng, 0)>>
        alice_auth_pk == PublicKey(alice_auth_sk)
        sell == Token_new("btc", 2)
        buy == Token_new("eth", 10)
        alice == create_token_intent_ptx(Advance(rng, 1), sell, buy,
                                         alice_auth_sk)
        rng_bob == Advance(rng, ScenarioStride)
        bob_auth_sk == <<"sk", Draw(rng_bob, 0)>>
        bob_auth_pk == PublicKey(bob_auth_sk)
        bob_nk == Nk_random_key(Advance(rng_bob, 1))
        offer == Token_new("eth", 5)
        returned == Token_new("btc", 1)
        bob_ptx == create_token_swap_ptx(Advance(rng_bob, 2), offer,
                       bob_auth_sk, bob_nk, returned, bob_auth_pk,
                       Nk_to_commitment(bob_nk))
        solver_ptx == consume_token_intent_ptx(
                          Advance(rng, 2 * ScenarioStride), alice.swap, offer,
                          alice_auth_pk, returned_delta)
    IN  Transaction_build(<<alice.ptx, bob_ptx, solver_ptx>>)

(* ------------------------- Transaction::execute ------------------------ *)
\* the nullifiers of all actions of all partial transactions, in order
RECURSIVE TxNullifiers(_)
TxNullifiers(bundle) ==
    IF bundle = <<>> THEN <<>>
    ELSE [i \in 1..Len(Head(bundle).actions) |-> Head(bundle).actions[i].nf]
         \o TxNullifiers(Tail(bundle))

\* a duplicate check that looks at each partial transaction on its own
HasDuplicateNullifier_perptx(tx) ==
    \E p \in 1..Len(tx.shielded) :
        \E i, j \in 1..Len(tx.shielded[p].actions) :
            i < j /\ tx.shielded[p].actions[i].nf = tx.shielded[p].actions[j].nf

\* whether two nullifiers of the transaction coincide
HasDuplicateNullifier(tx) ==
    LET nfs == TxNullifiers(tx.shielded)
    IN  \E i, j \in 1..Len(nfs) : i < j /\ nfs[i] = nfs[j]

\* a verification that checks the action proofs only
PtxVerify_actionsonly(ptx) ==
    \A i \in 1..Len(ptx.actions) : ptx.actions[i].proof_ok

\* ShieldedPartialTransaction::execute : every action proof and every
\* validity-predicate proof of the partial transaction verifies
PtxVerify(ptx) ==
    /\ \A i \in 1..Len(ptx.actions) : ptx.actions[i].proof_ok
    /\ \A i \in 1..Len(ptx.inputs) : ptx.inputs[i].proof_ok
    /\ \A i \in 1..Len(ptx.outputs) : ptx.outputs[i].proof_ok

\* the net value commitments of all actions of the transaction
RECURSIVE TxValueCommitments(_)
TxValueCommitments(bundle) ==
    IF bundle = <<>> THEN <<>>
    ELSE [i \in 1..Len(Head(bundle).actions) |-> Head(bundle).actions[i].cv_net]
         \o TxValueCommitments(Tail(bundle))

\* the binding check: the commitments sum to a commitment to zero under the
\* binding key
TxBalanced(tx) ==
    PointSum(TxValueCommitments(tx.shielded))
        = PointMul(NOTE_COMMITMENT_R_GENERATOR, tx.bsk)

(* ------------------------------ state ---------------------------------- *)
VARIABLES
    a_pc,          \* position inside ActionInfo::build
    a_info,        \* the ActionInfo being built
    a_path,        \* the merkle path handed to SpendInfo::new
    a_spend_cm,    \* local spend_cm
    a_nf,          \* local nf
    a_output_note, \* local output_note
    a_output_cm,   \* local output_cm
    a_action,      \* the returned Action
    a_rng          \* the caller's randomness source

avars == <<a_pc, a_info, a_path, a_spend_cm, a_nf, a_output_note,
           a_output_cm, a_action, a_rng>>

NoNote == [none |-> TRUE]

InitAction ==
    /\ a_pc = "idle"
    /\ a_info = NoNote
    /\ a_path = <<>>
    /\ a_spend_cm = None
    /\ a_nf = None
    /\ a_output_note = NoNote
    /\ a_output_cm = None
    /\ a_action = NoNote
    /\ a_rng = RngNew(1)

\* the caller makes an ActionInfo (SpendInfo::new, OutputInfo::new,
\* ActionInfo::new) and picks the randomness source for build
MakeActionInfo ==
    /\ a_pc = "idle"
    /\ \E note \in SpendNotes, path \in MerklePaths, out \in OutputInfos,
          seed \in Seeds :
          /\ a_info' = ActionInfo_new(SpendInfo_new(note, path), out)
          /\ a_path' = path
          /\ a_rng' = RngNew(seed)
    /\ a_pc' = "spend_cm"
    /\ UNCHANGED <<a_spend_cm, a_nf, a_output_note, a_output_cm, a_action>>

\* build, line 71: let spend_cm = self.spend.note.commitment()
BuildSpendCm ==
    /\ a_pc = "spend_cm"
    /\ a_spend_cm' = ActionNote_commitment(a_info.spend.note)
    /\ a_pc' = "nf"
    /\ UNCHANGED <<a_info, a_path, a_nf, a_output_note, a_output_cm, a_action,
                   a_rng>>

\* lines 72-78 without the unwrap: whatever the address holds is the key
BuildDeriveNf_nounwrap(info, spend_cm) ==
    Nullifier_derive_native(info.spend.note.user.send_com[2],
                            info.spend.note.rho, info.spend.note.psi, spend_cm)

\* build, lines 72-78: the nullifier, or None when get_nk().unwrap() panics
BuildDeriveNf(info, spend_cm) ==
    LET nk == SendGetNk(info.spend.note.user.send_com)
    IN  IF nk = None THEN None
        ELSE Nullifier_derive_native(nk, info.spend.note.rho,
                                     info.spend.note.psi, spend_cm)

\* build, lines 72-78: get_nk().unwrap() and Nullifier::derive_native
BuildNf ==
    /\ a_pc = "nf"
    /\ LET nf == BuildDeriveNf(a_info, a_spend_cm)
       IN  IF nf = None
           THEN /\ a_pc' = "panic"
                /\ UNCHANGED a_nf
           ELSE /\ a_nf' = nf
                /\ a_pc' = "note"
    /\ UNCHANGED <<a_info, a_path, a_spend_cm, a_output_note, a_output_cm,
                   a_action, a_rng>>

\* line 93 handing on the spent note's rho instead of the fresh nullifier
BuildOutputRho_stale(info, nf) == info.spend.note.rho

\* the rho handed to Note::new at line 93
BuildOutputRho(info, nf) == nf

\* build, lines 80-96: user, token, note_rcm and the output note
BuildOutputNote ==
    /\ a_pc = "note"
    /\ LET user == [send_com |-> a_info.output.addr_send_closed,
                    recv_vp |-> a_info.output.addr_recv_vp]
           token == [token_vp |-> a_info.output.addr_token_vp]
           note_rcm == RngDraw(a_rng)
       IN  a_output_note' = ActionNote_new(user, token, a_info.output.value,
                                           BuildOutputRho(a_info, a_nf),
                                           a_info.output.data, note_rcm)
    /\ a_rng' = RngNext(a_rng)
    /\ a_pc' = "output_cm"
    /\ UNCHANGED <<a_info, a_path, a_spend_cm, a_nf, a_output_cm, a_action>>

\* build, line 98: let output_cm = output_note.commitment()
BuildOutputCm ==
    /\ a_pc = "output_cm"
    /\ a_output_cm' = ActionNote_commitment(a_output_note)
    /\ a_pc' = "ret"
    /\ UNCHANGED <<a_info, a_path, a_spend_cm, a_nf, a_output_note, a_action,
                   a_rng>>

\* the Action of lines 99-103
BuildAction(info, nf, output_cm) ==
    [nf |-> nf, cm |-> output_cm, root |-> info.spend.root]

\* build, lines 99-103: return the Action
BuildReturn ==
    /\ a_pc = "ret"
    /\ a_action' = BuildAction(a_info, a_nf, a_output_cm)
    /\ a_pc' = "done"
    /\ UNCHANGED <<a_info, a_path, a_spend_cm, a_nf, a_output_note,
                   a_output_cm, a_rng>>

NextAction ==
    \/ MakeActionInfo
    \/ BuildSpendCm
    \/ BuildNf
    \/ BuildOutputNote
    \/ BuildOutputCm
    \/ BuildReturn

(* ----------------------- state of the transaction layer ---------------- *)
\* number of partial transactions a caller collects before building
MaxPool == 2

VARIABLES
    t_pool,     \* the partial transactions collected so far
    t_err,      \* outcome of the last construction call
    t_forged,   \* whether a collected partial transaction carries a bad proof
    t_tx,       \* the built transaction
    t_delta,    \* amount added to the returned note in the swap scenario
    t_anchor,   \* the anchor case of the last spend with a supplied anchor
    e_pc,       \* position inside Transaction::execute
    e_idx,      \* partial transaction being verified
    e_result    \* result of execute

tvars ==
    <<t_pool, t_err, t_forged, t_tx, t_delta, t_anchor, e_pc, e_idx, e_result>>

NoTx == [none |-> TRUE]
\* the swap scenario was not run / was run with the returned amount changed
NoDelta == [on |-> FALSE, by |-> 0]
ScenarioDelta(d) == [on |-> TRUE, by |-> d]
\* no anchor was supplied / one was, for a note checked or not, the root or not
NoAnchor == [on |-> FALSE, checked |-> FALSE, is_root |-> FALSE]
SuppliedAnchor(checked, is_root) ==
    [on |-> TRUE, checked |-> checked, is_root |-> is_root]

InitTx ==
    /\ t_pool = <<>>
    /\ t_err = "none"
    /\ t_forged = FALSE
    /\ t_tx = NoTx
    /\ t_delta = NoDelta
    /\ t_anchor = NoAnchor
    /\ e_pc = "collect"
    /\ e_idx = 0
    /\ e_result = "none"

TokenNames == {"btc", "eth"}
Tokens == { Token_new(n, v) : n \in TokenNames, v \in 1..MaxTokenValue }
InputNks == {NkKey(<<"nk", Fixed(1)>>), NkCommitment(<<"com_nk", <<"nk", Fixed(1)>>>>)}
ReturnedDeltas == {-1, 0, 1}

\* a party spends one btc in a token swap partial transaction built with its
\* own randomness; a panic of the builder ends the run
CreateTokenSwapPtx ==
    /\ e_pc = "collect"
    /\ Len(t_pool) < MaxPool
    /\ ~t_forged
    /\ \E seed \in Seeds, output_token \in Tokens, input_nk \in InputNks :
          LET sk == <<"sk", Fixed(1)>>
              ptx == create_token_swap_ptx(RngNew(seed), Token_new("btc", 1),
                         sk, input_nk, output_token, PublicKey(sk),
                         NkCommitment(<<"com_nk", <<"nk", Fixed(2)>>>>))
          IN  IF ptx = NoPtx \/ ptx = PtxError("MerkleInconsistencyError")
              THEN /\ t_err' = "panic"
                   /\ e_pc' = "panicked"
                   /\ UNCHANGED t_pool
              ELSE /\ t_err' = "ok"
                   /\ t_pool' = Append(t_pool, ptx)
                   /\ UNCHANGED e_pc
    /\ UNCHANGED <<t_forged, t_tx, t_delta, t_anchor, e_idx, e_result>>

\* a party opens the collection with a spend whose anchor it supplies; a
\* failed construction ends the run
CreatePtxWithAnchor ==
    /\ e_pc = "collect"
    /\ t_pool = <<>>
    /\ \E seed \in Seeds, checked \in BOOLEAN, is_root \in BOOLEAN :
          LET ptx == spend_token_with_anchor(RngNew(seed), checked, is_root)
          IN  /\ t_anchor' = SuppliedAnchor(checked, is_root)
              /\ IF ptx = PtxError("MerkleInconsistencyError")
                 THEN /\ t_err' = "MerkleInconsistencyError"
                      /\ e_pc' = "rejected"
                      /\ UNCHANGED t_pool
                 ELSE /\ t_err' = "ok"
                      /\ t_pool' = Append(t_pool, ptx)
                      /\ UNCHANGED e_pc
    /\ UNCHANGED <<t_forged, t_tx, t_delta, e_idx, e_result>>

\* the partial transaction collected last turns out to carry a proof that
\* does not verify (an action proof or the proof of a note's validity
\* predicate)
ForgedProof ==
    /\ e_pc = "collect"
    /\ ~t_forged
    /\ Len(t_pool) > 0
    /\ \E part \in {"actions", "inputs", "outputs"}, i \in 1..NUM_NOTE :
          t_pool' = [t_pool EXCEPT ![Len(t_pool)][part][i].proof_ok = FALSE]
    /\ t_forged' = TRUE
    /\ UNCHANGED <<t_err, t_tx, t_delta, t_anchor, e_pc, e_idx, e_result>>

\* Transaction::build over the collected partial transactions, or over a
\* single collected partial transaction taken twice
BuildTransaction ==
    /\ e_pc = "collect"
    /\ Len(t_pool) > 0
    /\ \E bundle \in {t_pool} \cup
                     (IF Len(t_pool) = 1 THEN {t_pool \o t_pool} ELSE {}) :
          t_tx' = Transaction_build(bundle)
    /\ e_pc' = "built"
    /\ UNCHANGED <<t_pool, t_err, t_forged, t_delta, t_anchor, e_idx, e_result>>

\* create_token_swap_transaction with the returned amount changed by delta
SwapScenario ==
    /\ e_pc = "collect"
    /\ t_pool = <<>>
    /\ \E seed \in Seeds, delta \in ReturnedDeltas :
          /\ t_tx' = create_token_swap_transaction(RngNew(seed), delta)
          /\ t_delta' = ScenarioDelta(delta)
    /\ t_err' = "ok"
    /\ e_pc' = "built"
    /\ UNCHANGED <<t_pool, t_forged, t_anchor, e_idx, e_result>>

\* execute: the nullifiers of the transaction are pairwise distinct
ExecCheckNullifiers ==
    /\ e_pc = "built"
    /\ IF HasDuplicateNullifier(t_tx)
       THEN /\ e_result' = "DuplicateNullifierError"
            /\ e_pc' = "done"
            /\ UNCHANGED e_idx
       ELSE /\ e_pc' = "proofs"
            /\ e_idx' = 1
            /\ UNCHANGED e_result
    /\ UNCHANGED <<t_pool, t_err, t_forged, t_tx, t_delta, t_anchor>>

\* execute: verify the proofs of the next partial transaction
ExecVerifyPtx ==
    /\ e_pc = "proofs"
    /\ IF ~PtxVerify(t_tx.shielded[e_idx])
       THEN /\ e_result' = "ProofVerificationError"
            /\ e_pc' = "done"
            /\ UNCHANGED e_idx
       ELSE /\ e_idx' = e_idx + 1
            /\ e_pc' = IF e_idx = Len(t_tx.shielded) THEN "balance"
                       ELSE "proofs"
            /\ UNCHANGED e_result
    /\ UNCHANGED <<t_pool, t_err, t_forged, t_tx, t_delta, t_anchor>>

\* execute: the aggregate value commitment is a commitment to zero
ExecCheckBalance ==
    /\ e_pc = "balance"
    /\ e_result' = IF TxBalanced(t_tx) THEN "Ok"
                   ELSE "UnbalancedTransactionError"
    /\ e_pc' = "done"
    /\ UNCHANGED <<t_pool, t_err, t_forged, t_tx, t_delta, t_anchor, e_idx>>

NextTx ==
    \/ CreateTokenSwapPtx
    \/ CreatePtxWithAnchor
    \/ ForgedProof
    \/ BuildTransaction
    \/ SwapScenario
    \/ ExecCheckNullifiers
    \/ ExecVerifyPtx
    \/ ExecCheckBalance

(* ================= the API context (api.rs) and its tree =============== *)
\* number of leaves inserted into the note commitment tree of a context
MaxLeaves == 3

\* the leaf of a tree position that holds no commitment
EmptyLeaf == <<"x", <<"empty">>>>

\* 2^n
RECURSIVE Pow2(_)
Pow2(n) == IF n = 0 THEN 1 ELSE 2 * Pow2(n - 1)

\* the bottom level of the tree of depth TAIGA_COMMITMENT_TREE_DEPTH over leaves
PadLeaves(leaves) ==
    [k \in 1..Pow2(TAIGA_COMMITMENT_TREE_DEPTH) |->
        IF k <= Len(leaves) THEN leaves[k] ELSE EmptyLeaf]

\* the level above nodes: each parent hashes its left child then its right
ParentLevel(nodes) ==
    [k \in 1..(Len(nodes) \div 2) |-> <<"H", nodes[2 * k - 1], nodes[2 * k]>>]

RECURSIVE TreeLevel(_, _)
\* the nodes of the tree j levels above the leaves
TreeLevel(nodes, j) == IF j = 0 THEN nodes ELSE TreeLevel(ParentLevel(nodes), j - 1)

\* the root of the tree over leaves
Tree_current_root(leaves) ==
    TreeLevel(PadLeaves(leaves), TAIGA_COMMITMENT_TREE_DEPTH)[1]

RECURSIVE BuildPathFrom(_, _)
\* walk up from position pos (0-based) of nodes, recording at each level the
\* sibling and whether the current node is the right child
BuildPathFrom(nodes, pos) ==
    IF Len(nodes) = 1 THEN <<>>
    ELSE LET is_right == pos % 2 = 1
             sibling == IF is_right THEN nodes[pos] ELSE nodes[pos + 2]
         IN  <<<<sibling, is_right>>>> \o
             BuildPathFrom(ParentLevel(nodes), pos \div 2)

\* MerklePath::build_merkle_path(leaves, index), index 0-based
MerklePath_build_merkle_path(leaves, index) ==
    BuildPathFrom(PadLeaves(leaves), index)

\* note types a context knows by name, and the value base each derives
NoteTypeNames == {"btc", "eth"}
ValueBase_derive_value_base(note_type) == <<"vb", note_type>>

\* the keys of the two users of a context
ApiSks == {<<"sk", Fixed(1)>>, <<"sk", Fixed(2)>>}

\* a note of type note_type encrypted to pk, and the leaf that commits to it
ApiNote(pk, note_type) == [owner |-> pk, note_type |-> note_type]
ApiLeaf(pk, note_type) == <<"x", <<"leafnote", pk, note_type>>>>
\* the point at infinity as a public key: it has no coordinates
ApiIdentity == PublicKey(<<"sk", Fixed(0)>>)
\* the public keys a caller may hand in
ApiPks == { PublicKey(sk) : sk \in ApiSks } \cup {ApiIdentity}
ApiLeaves == { ApiLeaf(PublicKey(sk), n) : sk \in ApiSks, n \in NoteTypeNames }

\* receiver_vp::decrypt_note(instances, sk) : Option<Note>; the note comes out
\* when the instances name the key it was encrypted to and sk opens that key
receiver_decrypt_note(instances, sk) ==
    IF /\ instances[2] = PublicKey(sk)
       /\ instances[1][2][2] = instances[2]
    THEN [some |-> ApiNote(instances[1][2][2], instances[1][2][3])]
    ELSE [none |-> TRUE]

VARIABLES
    c_note_directory,   \* TestContext.note_directory: the known names
    c_encrypted,        \* TestContext.encrypted_notes_directory: its keys
    c_leaves,           \* TestContext.note_commitment_tree
    c_query,            \* the last call on the context and its arguments
    c_out               \* what that call gave

cvars == <<c_note_directory, c_encrypted, c_leaves, c_query, c_out>>

NoQuery ==
    [call |-> "none", name |-> "", note_comm |-> None, sk |-> None,
     pk |-> None]
NoOut == [kind |-> "none", notes |-> <<>>]

InitApi ==
    /\ c_note_directory = NoteTypeNames
    /\ c_encrypted = {}
    /\ c_leaves = <<>>
    /\ c_query = NoQuery
    /\ c_out = NoOut

\* a decrypt_note that does not consult the encrypted-notes directory
TestContext_decrypt_note_nodirectory(encrypted, note_comm, pk, sk) ==
    IF pk = ApiIdentity THEN [panic |-> TRUE]
    ELSE IF "some" \in DOMAIN receiver_decrypt_note(<<note_comm, pk>>, sk)
         THEN [ok |-> receiver_decrypt_note(<<note_comm, pk>>, sk).some]
         ELSE [err |-> "NoteDecryptionError"]

\* TestContext::decrypt_note(note_comm, pk, sk) : Result<Note, APIError>;
\* for a filed commitment the coordinates of pk are unwrapped (line 71)
TestContext_decrypt_note(encrypted, note_comm, pk, sk) ==
    IF note_comm \in encrypted
    THEN IF pk = ApiIdentity THEN [panic |-> TRUE]
         ELSE IF "some" \in DOMAIN receiver_decrypt_note(<<note_comm, pk>>, sk)
              THEN [ok |-> receiver_decrypt_note(<<note_comm, pk>>, sk).some]
              ELSE [err |-> "NoteDecryptionError"]
    ELSE [err |-> "NoteDecryptionError"]

\* TestContext::retrieve_note_type(name) : the lookup is unwrapped
TestContext_retrieve_note_type(directory, name) ==
    IF name \in directory THEN [some |-> name] ELSE [panic |-> TRUE]

IsOk(r) == "ok" \in DOMAIN r

RECURSIVE OwnedFrom_wrongindex(_, _, _, _, _, _)
\* a filter_map that hands the 1-based position of the leaf to the path builder
OwnedFrom_wrongindex(encrypted, leaves, note_type, sk, pk, i) ==
    IF i > Len(leaves) THEN <<>>
    ELSE LET r == TestContext_decrypt_note(encrypted, leaves[i], pk, sk)
             rest == OwnedFrom_wrongindex(encrypted, leaves, note_type, sk, pk, i + 1)
         IN  IF IsOk(r) /\ ValueBase_derive_value_base(r.ok.note_type)
                            = ValueBase_derive_value_base(note_type)
             THEN <<[note |-> r.ok, note_cm |-> leaves[i],
                     merkle_path |->
                        MerklePath_build_merkle_path(leaves, i % Len(leaves))]>> \o rest
             ELSE rest

RECURSIVE OwnedFrom(_, _, _, _, _, _)
\* the filter_map of retrieve_owned_notes over the leaves from position i on
OwnedFrom(encrypted, leaves, note_type, sk, pk, i) ==
    IF i > Len(leaves) THEN <<>>
    ELSE LET r == TestContext_decrypt_note(encrypted, leaves[i], pk, sk)
             rest == OwnedFrom(encrypted, leaves, note_type, sk, pk, i + 1)
         IN  IF IsOk(r) /\ ValueBase_derive_value_base(r.ok.note_type)
                            = ValueBase_derive_value_base(note_type)
             THEN <<[note |-> r.ok, note_cm |-> leaves[i],
                     merkle_path |->
                        MerklePath_build_merkle_path(leaves, i - 1)]>> \o rest
             ELSE rest

\* TestContext::retrieve_owned_notes(note_identifier, sk, pk)
TestContext_retrieve_owned_notes(directory, encrypted, leaves, note_identifier, sk, pk) ==
    LET t == TestContext_retrieve_note_type(directory, note_identifier)
    IN  IF "panic" \in DOMAIN t THEN [kind |-> "panic", notes |-> <<>>]
        ELSE IF \E i \in 1..Len(leaves) :
                   "panic" \in DOMAIN TestContext_decrypt_note(encrypted,
                                                              leaves[i], pk, sk)
             THEN [kind |-> "panic", notes |-> <<>>]
             ELSE [kind |-> "Ok",
                   notes |-> OwnedFrom(encrypted, leaves, t.some, sk, pk, 1)]

\* a commitment is appended to the tree; its ciphertext may be filed or not
TreeInsert ==
    /\ Len(c_leaves) < MaxLeaves
    /\ \E leaf \in ApiLeaves, filed \in BOOLEAN :
          /\ c_leaves' = Append(c_leaves, leaf)
          /\ c_encrypted' = IF filed THEN c_encrypted \cup {leaf} ELSE c_encrypted
    /\ c_query' = NoQuery
    /\ c_out' = NoOut
    /\ UNCHANGED c_note_directory

\* a caller asks for its notes of one type
RetrieveOwnedNotes ==
    /\ c_leaves # <<>>
    /\ \E name \in NoteTypeNames \cup {"xan"}, sk \in ApiSks, pk \in ApiPks :
          /\ c_query' = [call |-> "retrieve_owned_notes", name |-> name,
                         note_comm |-> None, sk |-> sk, pk |-> pk]
          /\ c_out' = TestContext_retrieve_owned_notes(c_note_directory,
                          c_encrypted, c_leaves, name, sk, pk)
    /\ UNCHANGED <<c_note_directory, c_encrypted, c_leaves>>

\* a caller asks for the note behind one commitment
DecryptNote ==
    /\ c_leaves # <<>>
    /\ \E note_comm \in ApiLeaves, sk \in ApiSks, pk \in ApiPks :
          /\ c_query' = [call |-> "decrypt_note", name |-> "",
                         note_comm |-> note_comm, sk |-> sk, pk |-> pk]
          /\ \E r \in {TestContext_decrypt_note(c_encrypted, note_comm, pk, sk)} :
                c_out' = IF "panic" \in DOMAIN r
                         THEN [kind |-> "panic", notes |-> <<>>]
                         ELSE IF IsOk(r) THEN [kind |-> "Ok", notes |-> <<r.ok>>]
                         ELSE [kind |-> r.err, notes |-> <<>>]
    /\ UNCHANGED <<c_note_directory, c_encrypted, c_leaves>>

NextApi ==
    \/ TreeInsert
    \/ RetrieveOwnedNotes
    \/ DecryptNote

(* ====================== VP bytecode (vp_bytecode.rs) =================== *)
\* number of auxiliary VP bytecodes of an application
MaxDynamicVps == 2

\* ValidityPredicateRepresentation::VampIR(bytes) and ::Trivial
VampIR(bytes) == [tag |-> "VampIR", payload |-> bytes]
Trivial == [tag |-> "Trivial", payload |-> <<>>]

\* ValidityPredicateByteCode::new(circuit, inputs)
ValidityPredicateByteCode_new(circuit, inputs) ==
    [circuit |-> circuit, inputs |-> inputs]

\* ApplicationByteCode::new(app_vp_bytecode, dynamic_vp_bytecode)
ApplicationByteCode_new(app_vp_bytecode, dynamic_vp_bytecode) ==
    [app_vp_bytecode |-> app_vp_bytecode,
     dynamic_vp_bytecode |-> dynamic_vp_bytecode]

(* ---- the derived Borsh encoding: integers little-endian, a Vec as its   *)
(* ---- u32 length and its elements, an enum as its u8 variant index       *)
BorshU32(n) ==
    <<n % 256, (n \div 256) % 256, (n \div 65536) % 256,
      (n \div 16777216) % 256>>

\* a Vec<u8> written without its length
BorshVecU8_nolength(bytes) == bytes

BorshVecU8(bytes) == BorshU32(Len(bytes)) \o bytes

ValidityPredicateRepresentation_serialize(circuit) ==
    IF circuit.tag = "VampIR" THEN <<0>> \o BorshVecU8(circuit.payload)
    ELSE <<1>>

ValidityPredicateByteCode_serialize(vp) ==
    ValidityPredicateRepresentation_serialize(vp.circuit) \o BorshVecU8(vp.inputs)

RECURSIVE BorshConcat(_)
BorshConcat(vps) ==
    IF vps = <<>> THEN <<>>
    ELSE ValidityPredicateByteCode_serialize(Head(vps)) \o BorshConcat(Tail(vps))

ApplicationByteCode_serialize(app) ==
    ValidityPredicateByteCode_serialize(app.app_vp_bytecode)
        \o BorshU32(Len(app.dynamic_vp_bytecode))
        \o BorshConcat(app.dynamic_vp_bytecode)

\* readers: the value read and the bytes left, or a failure
ReadFail == [ok |-> FALSE, val |-> <<>>, rest |-> <<>>]
ReadOk(val, rest) == [ok |-> TRUE, val |-> val, rest |-> rest]
Drop(bs, n) == SubSeq(bs, n + 1, Len(bs))

ReadU32(bs) ==
    IF Len(bs) < 4 THEN ReadFail
    ELSE ReadOk(bs[1] + 256 * bs[2] + 65536 * bs[3] + 16777216 * bs[4],
                Drop(bs, 4))

\* the one element of a one-element set; a value is bound once this way
The(S) == CHOOSE x \in S : TRUE

ReadVecU8(bs) ==
    The({ IF ~n.ok \/ Len(n.rest) < n.val THEN ReadFail
          ELSE ReadOk(SubSeq(n.rest, 1, n.val), Drop(n.rest, n.val)) :
          n \in {ReadU32(bs)} })

ValidityPredicateRepresentation_deserialize(bs) ==
    IF bs = <<>> THEN ReadFail
    ELSE IF bs[1] = 0
         THEN The({ IF v.ok THEN ReadOk(VampIR(v.val), v.rest) ELSE ReadFail :
                    v \in {ReadVecU8(Tail(bs))} })
         ELSE IF bs[1] = 1 THEN ReadOk(Trivial, Tail(bs))
         ELSE ReadFail

\* the inputs that follow a decoded circuit
ReadInputsAfter(c) ==
    IF ~c.ok THEN ReadFail
    ELSE The({ IF ~i.ok THEN ReadFail
               ELSE ReadOk(ValidityPredicateByteCode_new(c.val, i.val), i.rest) :
               i \in {ReadVecU8(c.rest)} })

ValidityPredicateByteCode_deserialize(bs) ==
    The({ ReadInputsAfter(c) :
          c \in {ValidityPredicateRepresentation_deserialize(bs)} })

RECURSIVE ReadVps(_, _)
\* the bytecodes that follow a decoded first one
ReadVpsAfter(v, n) ==
    IF ~v.ok THEN ReadFail
    ELSE The({ IF ~r.ok THEN ReadFail
               ELSE ReadOk(<<v.val>> \o r.val, r.rest) :
               r \in {ReadVps(v.rest, n - 1)} })

ReadVps(bs, n) ==
    IF n = 0 THEN ReadOk(<<>>, bs)
    ELSE The({ ReadVpsAfter(v, n) :
               v \in {ValidityPredicateByteCode_deserialize(bs)} })

\* the auxiliary bytecodes that follow the decoded governing one
ReadDynamicAfter(a) ==
    IF ~a.ok THEN ReadFail
    ELSE The({ IF ~n.ok THEN ReadFail
               ELSE The({ IF ~d.ok THEN ReadFail
                          ELSE ReadOk(ApplicationByteCode_new(a.val, d.val),
                                      d.rest) :
                          d \in {ReadVps(n.rest, n.val)} }) :
               n \in {ReadU32(a.rest)} })

ApplicationByteCode_deserialize(bs) ==
    The({ ReadDynamicAfter(a) :
          a \in {ValidityPredicateByteCode_deserialize(bs)} })

\* try_from_slice: the whole slice must be consumed
ApplicationByteCode_try_from_slice(bs) ==
    The({ IF r.ok /\ r.rest = <<>> THEN r ELSE ReadFail :
          r \in {ApplicationByteCode_deserialize(bs)} })

(* ---- proof generation ------------------------------------------------- *)
\* String::from_utf8_lossy on bytes of which those above 127 never form a
\* valid sequence: each becomes the replacement character
String_from_utf8_lossy(bytes) ==
    [i \in 1..Len(bytes) |-> IF bytes[i] < 128 THEN bytes[i] ELSE 65533]

\* the files of the machine proofs are generated on: "c" holds a well-formed
\* circuit, "d" a text that is no circuit; "i" holds inputs that satisfy the
\* circuit, "j" inputs that do not
CircuitFile(path) ==
    IF path = <<99>> THEN "wellformed"
    ELSE IF path = <<100>> THEN "malformed" ELSE "missing"
InputsFile(path) ==
    IF path = <<105>> THEN "satisfying"
    ELSE IF path = <<106>> THEN "unsatisfying" ELSE "missing"

\* whether the bytes of a VampIR representation describe a well-formed circuit
DescribesCircuit(bytes) == CircuitFile(String_from_utf8_lossy(bytes)) = "wellformed"

\* the outcomes of one proof generation
ProofFailed(e) == [kind |-> e, info |-> <<>>]
VerifyingInfo(vp) ==
    [kind |-> "info",
     info |-> <<"VPVerifyingInfo", <<"vk", vp.circuit>>,
                <<"proof", vp.circuit, vp.inputs>>>>]

\* VampIRValidityPredicateCircuit::from_vamp_ir_file followed by
\* get_verifying_info
VampIR_from_file_and_prove(vp, vamp_ir_circuit_file, inputs_file) ==
    IF CircuitFile(vamp_ir_circuit_file) # "wellformed"
    THEN ProofFailed("CircuitCompilationError")
    ELSE IF InputsFile(inputs_file) # "satisfying"
         THEN ProofFailed("WitnessError")
         ELSE VerifyingInfo(vp)

\* TrivialValidityPredicateCircuit::from_bytes followed by get_verifying_info;
\* "t" is the encoding of a trivial circuit
Trivial_from_bytes_and_prove(vp, inputs) ==
    IF inputs = <<116>> THEN VerifyingInfo(vp) ELSE ProofFailed("WitnessError")

\* a dispatch that sends every representation to the native trivial circuit
ValidityPredicateByteCode_generate_proof_nodispatch(vp) ==
    Trivial_from_bytes_and_prove(vp, <<116>>)

\* ValidityPredicateByteCode::generate_proof
ValidityPredicateByteCode_generate_proof(vp) ==
    IF vp.circuit.tag = "VampIR"
    THEN VampIR_from_file_and_prove(vp,
             String_from_utf8_lossy(vp.circuit.payload),
             String_from_utf8_lossy(vp.inputs))
    ELSE Trivial_from_bytes_and_prove(vp, vp.inputs)

\* the VP bytecodes applications are made of
VpByteCodes ==
    { ValidityPredicateByteCode_new(Trivial, <<116>>),
      ValidityPredicateByteCode_new(Trivial, <<0, 255>>),
      ValidityPredicateByteCode_new(VampIR(<<99>>), <<105>>),
      ValidityPredicateByteCode_new(VampIR(<<100>>), <<105>>),
      ValidityPredicateByteCode_new(VampIR(<<99>>), <<106>>),
      ValidityPredicateByteCode_new(VampIR(<<255, 99>>), <<105>>),
      ValidityPredicateByteCode_new(VampIR(<<>>), <<>>) }

RECURSIVE SeqsUpTo(_, _)
\* the sequences over S of length at most n
SeqsUpTo(S, n) ==
    IF n = 0 THEN {<<>>}
    ELSE LET shorter == SeqsUpTo(S, n - 1)
         IN  shorter \cup { Append(s, x) : s \in shorter, x \in S }

VARIABLES
    b_app,      \* the ApplicationByteCode a sender holds
    b_bytes,    \* its serialized form
    b_back,     \* what the receiver deserialized
    b_pc,       \* position inside generate_proofs
    b_idx,      \* the auxiliary bytecode generate_proofs is at
    b_infos,    \* the verifying infos generated so far
    b_out       \* the outcome of generate_proofs

bvars == <<b_app, b_bytes, b_back, b_pc, b_idx, b_infos, b_out>>

NoApp == [none |-> TRUE]

InitByteCode ==
    /\ b_app = NoApp
    /\ b_bytes = <<>>
    /\ b_back = NoApp
    /\ b_pc = "new"
    /\ b_idx = 0
    /\ b_infos = <<>>
    /\ b_out = "none"

\* ApplicationByteCode::new
NewApplicationByteCode ==
    /\ b_pc = "new"
    /\ \E app_vp \in VpByteCodes, dyn \in SeqsUpTo(VpByteCodes, MaxDynamicVps) :
          b_app' = ApplicationByteCode_new(app_vp, dyn)
    /\ b_pc' = "serialize"
    /\ UNCHANGED <<b_bytes, b_back, b_idx, b_infos, b_out>>

\* BorshSerialize
SerializeApplication ==
    /\ b_pc = "serialize"
    /\ b_bytes' = ApplicationByteCode_serialize(b_app)
    /\ b_pc' = "deserialize"
    /\ UNCHANGED <<b_app, b_back, b_idx, b_infos, b_out>>

\* BorshDeserialize
DeserializeApplication ==
    /\ b_pc = "deserialize"
    /\ \E r \in {ApplicationByteCode_try_from_slice(b_bytes)} :
          IF r.ok THEN b_back' = r.val /\ b_pc' = "app_vp"
          ELSE b_pc' = "undecodable" /\ UNCHANGED b_back
    /\ UNCHANGED <<b_app, b_bytes, b_idx, b_infos, b_out>>

\* generate_proofs, line 75: the proof of the governing VP
GenerateAppVpProof ==
    /\ b_pc = "app_vp"
    /\ LET r == ValidityPredicateByteCode_generate_proof(b_back.app_vp_bytecode)
       IN  IF r.kind = "info"
           THEN /\ b_infos' = <<r.info>>
                /\ b_idx' = 1
                /\ b_pc' = "dynamic"
                /\ UNCHANGED b_out
           ELSE /\ b_out' = r.kind
                /\ b_pc' = "failed"
                /\ UNCHANGED <<b_infos, b_idx>>
    /\ UNCHANGED <<b_app, b_bytes, b_back>>

\* a generate_proofs that walks the auxiliary bytecodes from the last one
GenerateDynamicVpProof_reversed ==
    /\ b_pc = "dynamic"
    /\ b_idx <= Len(b_back.dynamic_vp_bytecode)
    /\ LET r == ValidityPredicateByteCode_generate_proof(
                    b_back.dynamic_vp_bytecode[
                        Len(b_back.dynamic_vp_bytecode) + 1 - b_idx])
       IN  IF r.kind = "info"
           THEN /\ b_infos' = Append(b_infos, r.info)
                /\ b_idx' = b_idx + 1
                /\ UNCHANGED <<b_pc, b_out>>
           ELSE /\ b_out' = r.kind
                /\ b_pc' = "failed"
                /\ UNCHANGED <<b_infos, b_idx>>
    /\ UNCHANGED <<b_app, b_bytes, b_back>>

\* generate_proofs, lines 77-81: the proof of the next auxiliary VP
GenerateDynamicVpProof ==
    /\ b_pc = "dynamic"
    /\ b_idx <= Len(b_back.dynamic_vp_bytecode)
    /\ LET r == ValidityPredicateByteCode_generate_proof(
                    b_back.dynamic_vp_bytecode[b_idx])
       IN  IF r.kind = "info"
           THEN /\ b_infos' = Append(b_infos, r.info)
                /\ b_idx' = b_idx + 1
                /\ UNCHANGED <<b_pc, b_out>>
           ELSE /\ b_out' = r.kind
                /\ b_pc' = "failed"
                /\ UNCHANGED <<b_infos, b_idx>>
    /\ UNCHANGED <<b_app, b_bytes, b_back>>

\* generate_proofs, line 82: NoteVPVerifyingInfoSet::new
GenerateProofsReturn ==
    /\ b_pc = "dynamic"
    /\ b_idx > Len(b_back.dynamic_vp_bytecode)
    /\ b_out' = "NoteVPVerifyingInfoSet"
    /\ b_pc' = "done"
    /\ UNCHANGED <<b_app, b_bytes, b_back, b_idx, b_infos>>

NextByteCode ==
    \/ NewApplicationByteCode
    \/ SerializeApplication
    \/ DeserializeApplication
    \/ GenerateAppVpProof
    \/ GenerateDynamicVpProof
    \/ GenerateProofsReturn

(* ================== validity predicate circuits ======================== *)
\* largest secret key of a signer
MaxSk == 2

(* ---- the signature VP (signature_verification.rs) --------------------- *)
\* a point k*G of the base generator is written PublicKey(k); the scalar
\* z + h*sk with h a hash is written as its two coefficients and the hash
NoSignature == [none |-> TRUE]

\* SchnorrSignature::sign(rng, sk, message); NoSignature when it panics: the
\* coordinates of pk or of R are unwrapped (none for the identity) and the
\* message length is asserted
SchnorrSignature_sign(rng, sk, message) ==
    LET pk == PublicKey(sk)
        z == DrawScalar(rng, 0)
        r == PublicKey(z)
    IN  IF sk = 0 \/ z = 0 \/ Len(message) # NUM_NOTE * 2 THEN NoSignature
        ELSE [pk |-> pk, r |-> r,
              s |-> [k |-> z, hk |-> sk,
                     h |-> <<"poseidon8", r, pk, message[1], message[2],
                             message[3], message[4]>>]]

\* a message that lists both nullifiers before both commitments
SignedMessage_nfsfirst(input_notes, output_notes) ==
    <<Note_get_nf(input_notes[1]), Note_get_nf(input_notes[2]),
      Note_commitment(output_notes[1]), Note_commitment(output_notes[2])>>

\* from_sk_and_sign, lines 131-140: the message, pair by pair
SignedMessage(input_notes, output_notes) ==
    <<Note_get_nf(input_notes[1]), Note_commitment(output_notes[1]),
      Note_get_nf(input_notes[2]), Note_commitment(output_notes[2])>>

\* SignatureVerificationValidityPredicateCircuit::from_sk_and_sign
from_sk_and_sign(rng, owned_note_pub_id, input_notes, output_notes, vp_vk, sk, receiver_vp_vk) ==
    [owned_note_pub_id |-> owned_note_pub_id, input_notes |-> input_notes,
     output_notes |-> output_notes, vp_vk |-> vp_vk,
     signature |-> SchnorrSignature_sign(rng, sk,
                       SignedMessage(input_notes, output_notes)),
     receiver_vp_vk |-> receiver_vp_vk]

\* the (public id, app_data_dynamic) pairs the owned note is searched in
SearchablePairs(circuit) ==
    [i \in 1..NUM_NOTE |->
        <<Note_get_nf(circuit.input_notes[i]),
          circuit.input_notes[i].app_data_dynamic>>] \o
    [i \in 1..NUM_NOTE |->
        <<Note_commitment(circuit.output_notes[i]),
          circuit.output_notes[i].app_data_dynamic>>]

\* an encoding check that is left out
AppDataDynamicEncoded_unchecked(circuit) == TRUE

\* custom_constraints, lines 164-202: the app_data_dynamic of the owned note
\* is the hash of the signature's public key and the two verifying keys
AppDataDynamicEncoded(circuit) ==
    LET pairs == SearchablePairs(circuit)
    IN  /\ circuit.signature.pk # PublicKey(0)
        /\ \E i \in 1..Len(pairs) : pairs[i][1] = circuit.owned_note_pub_id
        /\ \A i \in 1..Len(pairs) :
              pairs[i][1] = circuit.owned_note_pub_id =>
                  pairs[i][2] = <<"poseidon", circuit.signature.pk,
                                  circuit.vp_vk, circuit.receiver_vp_vk>>

\* custom_constraints, lines 204-250: s*G = R + Hash(r||P||m)*P over the
\* nullifiers and commitments of the circuit's notes
SignatureVerified(circuit) ==
    LET sig == circuit.signature
        h == <<"poseidon8", sig.r, sig.pk,
               Note_get_nf(circuit.input_notes[1]),
               Note_commitment(circuit.output_notes[1]),
               Note_get_nf(circuit.input_notes[2]),
               Note_commitment(circuit.output_notes[2])>>
    IN  /\ sig.r # PublicKey(0)
        /\ sig.s.k = sig.r[2]
        /\ sig.s.hk = sig.pk[2]
        /\ sig.s.hk # 0 => sig.s.h = h

\* SignatureVerificationValidityPredicateCircuit::custom_constraints
Signature_custom_constraints(circuit) ==
    AppDataDynamicEncoded(circuit) /\ SignatureVerified(circuit)

\* note::tests::random_input_note / random_output_note
random_input_note(rng) ==
    Note_new(Draw(rng, 0), Draw(rng, 1), Draw(rng, 2), 1,
             NkKey(<<"nk", Draw(rng, 3)>>), Draw(rng, 4), TRUE, Draw(rng, 5))
random_output_note(rng, rho) ==
    Note_new(Draw(rng, 0), Draw(rng, 1), Draw(rng, 2), 1,
             NkCommitment(<<"com_nk", <<"nk", Draw(rng, 3)>>>>), rho, TRUE,
             Draw(rng, 4))

\* test_halo2_sig_verification_vp_circuit, lines 303-323: the owner's key
\* auth_sk is committed in input note 0 after the output notes were made,
\* and the notes are signed with sk
SignatureTestCircuit(rng, auth_sk, sk, auth_vk, vp_vk) ==
    LET input0 == random_input_note(rng)
        input1 == random_input_note(Advance(rng, 6))
        output0 == random_output_note(Advance(rng, 12), Note_get_nf(input0))
        output1 == random_output_note(Advance(rng, 17), Note_get_nf(input1))
        auth == TokenAuthorization_from_sk_vk(auth_sk, auth_vk)
        owned == [input0 EXCEPT !.app_data_dynamic =
                                   TokenAuthorization_to_app_data_dynamic(auth)]
    IN  from_sk_and_sign(Advance(rng, 22), Note_get_nf(owned),
                         <<owned, input1>>, <<output0, output1>>, vp_vk, sk,
                         COMPRESSED_RECEIVER_VK)

(* ---- the balance VP (balance.rs) -------------------------------------- *)
\* an input or output note as the VP sees it
BalanceNote(app_addr, value) == [app_addr |-> app_addr, value |-> value]

\* a balance VP that leaves the application of the output notes unchecked
Balance_custom_constraints_inputsonly(input_notes, output_notes) ==
    /\ \A i \in 1..Len(input_notes) :
          input_notes[i].app_addr = input_notes[1].app_addr
    /\ IntSum([i \in 1..Len(input_notes) |-> input_notes[i].value])
          = IntSum([i \in 1..Len(output_notes) |-> output_notes[i].value])

\* BalanceValidityPredicate::custom_constraints
Balance_custom_constraints(input_notes, output_notes) ==
    LET var_app == input_notes[1].app_addr
    IN  /\ \A i \in 1..Len(input_notes) : input_notes[i].app_addr = var_app
        /\ \A i \in 1..Len(output_notes) : output_notes[i].app_addr = var_app
        /\ IntSum([i \in 1..Len(input_notes) |-> input_notes[i].value])
              = IntSum([i \in 1..Len(output_notes) |-> output_notes[i].value])

(* ---- the sudoku VP (simple_sudoku/vp.rs) ------------------------------ *)
\* SudokuVP::get_verifying_info(&self) with the entropy OsRng hands to
\* Proof::create
SudokuVP_get_verifying_info(vp, os_entropy) ==
    [vk |-> <<"vk", vp>>, proof |-> <<"proof", vp, os_entropy>>,
     instance |-> <<"instance", vp>>]

VARIABLES
    v_pc,       \* which circuit is being made / checked
    v_circuit,  \* the signature VP circuit
    v_message,  \* the message the signature was made over
    v_edit,     \* the note changed after signing
    v_bal,      \* the notes of the balance VP
    v_runs,     \* the results of get_verifying_info on one sudoku VP
    v_result    \* what the constraint check said

vpvars == <<v_pc, v_circuit, v_message, v_edit, v_bal, v_runs, v_result>>

NoCircuit == [none |-> TRUE]
NoBalance == [input_notes |-> <<>>, output_notes |-> <<>>]
NoEdit == [part |-> "none", i |-> 0]

InitVp ==
    /\ v_pc = "new"
    /\ v_circuit = NoCircuit
    /\ v_message = <<>>
    /\ v_edit = NoEdit
    /\ v_bal = NoBalance
    /\ v_runs = <<>>
    /\ v_result = "none"

\* the signature VP test circuit is made: the owner's key, the signing key
\* and the verifying key witnessed to the circuit are the caller's
FromSkAndSign ==
    /\ v_pc = "new"
    /\ \E seed \in Seeds, auth_sk \in 1..MaxSk, sk \in 0..MaxSk,
          vp_vk \in {<<"auth_vk", 1>>, <<"auth_vk", 2>>} :
          LET c == SignatureTestCircuit(RngNew(seed), auth_sk, sk,
                                        <<"auth_vk", 1>>, vp_vk)
          IN  IF c.signature = NoSignature
              THEN /\ v_pc' = "panic"
                   /\ UNCHANGED <<v_circuit, v_message>>
              ELSE /\ v_pc' = "signed"
                   /\ v_circuit' = c
                   /\ v_message' = SignedMessage(c.input_notes, c.output_notes)
    /\ UNCHANGED <<v_edit, v_bal, v_runs, v_result>>

\* SchnorrSignature::sign is called with a message of the caller's own
SignMessage ==
    /\ v_pc = "new"
    /\ \E seed \in Seeds, sk \in 0..MaxSk, n \in 3..5 :
          LET message == [i \in 1..n |-> <<"m", i>>]
          IN  /\ v_message' = message
              /\ v_pc' = IF SchnorrSignature_sign(RngNew(seed), sk, message)
                            = NoSignature
                         THEN "panic" ELSE "signature"
    /\ UNCHANGED <<v_circuit, v_edit, v_bal, v_runs, v_result>>

\* one note of the circuit is changed after the signature was made
EditNote ==
    /\ v_pc = "signed"
    /\ v_edit = NoEdit
    /\ \E part \in {"input_notes", "output_notes"}, i \in 1..NUM_NOTE :
          /\ v_circuit' = [v_circuit EXCEPT ![part][i].value = @ + 1]
          /\ v_edit' = [part |-> part, i |-> i]
    /\ UNCHANGED <<v_pc, v_message, v_bal, v_runs, v_result>>

\* MockProver::run(..).verify() on the signature VP circuit
VerifySignatureCircuit ==
    /\ v_pc = "signed"
    /\ v_result' = IF Signature_custom_constraints(v_circuit)
                   THEN "satisfied" ELSE "unsatisfied"
    /\ v_pc' = "verified"
    /\ UNCHANGED <<v_circuit, v_message, v_edit, v_bal, v_runs>>

\* BalanceValidityPredicate::new
BalanceApps == {<<"app", 1>>, <<"app", 2>>}
BalanceNotes == { BalanceNote(a, v) : a \in BalanceApps, v \in 0..MaxValue }
NewBalanceVp ==
    /\ v_pc = "new"
    /\ \E i1 \in BalanceNotes, i2 \in BalanceNotes, o1 \in BalanceNotes,
          o2 \in BalanceNotes :
          v_bal' = [input_notes |-> <<i1, i2>>, output_notes |-> <<o1, o2>>]
    /\ v_pc' = "balance"
    /\ UNCHANGED <<v_circuit, v_message, v_edit, v_runs, v_result>>

\* the value of one output note of the balance VP is changed
EditBalanceOutput ==
    /\ v_pc = "balance"
    /\ v_edit = NoEdit
    /\ \E i \in 1..NUM_NOTE :
          /\ v_bal' = [v_bal EXCEPT !.output_notes[i].value = @ + 1]
          /\ v_edit' = [part |-> "output_notes", i |-> i]
    /\ UNCHANGED <<v_pc, v_circuit, v_message, v_runs, v_result>>

\* composer.check_circuit_satisfied() on the balance VP
CheckBalanceVp ==
    /\ v_pc = "balance"
    /\ v_result' = IF Balance_custom_constraints(v_bal.input_notes,
                                                 v_bal.output_notes)
                   THEN "satisfied" ELSE "unsatisfied"
    /\ v_pc' = "balance_checked"
    /\ UNCHANGED <<v_circuit, v_message, v_edit, v_bal, v_runs>>

\* get_verifying_info is called on one sudoku VP, up to twice; the operating
\* system supplies the entropy of each call
SudokuGetVerifyingInfo ==
    /\ v_pc \in {"new", "sudoku"}
    /\ Len(v_runs) < 2
    /\ \E os_entropy \in Seeds :
          v_runs' = Append(v_runs,
                           SudokuVP_get_verifying_info(<<"sudoku", 1>>,
                                                       os_entropy))
    /\ v_pc' = "sudoku"
    /\ UNCHANGED <<v_circuit, v_message, v_edit, v_bal, v_result>>

NextVp ==
    \/ FromSkAndSign
    \/ SignMessage
    \/ EditNote
    \/ VerifySignatureCircuit
    \/ NewBalanceVp
    \/ EditBalanceOutput
    \/ CheckBalanceVp
    \/ SudokuGetVerifyingInfo

(* ====================== notes of note.rs =============================== *)
\* Note::new(owner_address, token_address, value, spent_note_nf, psi, rng):
\* rcm is drawn from rng and data is 0
ArkNote_new(owner_address, token_address, value, spent_note_nf, psi, rng) ==
    [owner_address |-> owner_address, token_address |-> token_address,
     value |-> value, rcm |-> RngDraw(rng), data |-> 0,
     spent_note_nf |-> spent_note_nf, psi |-> psi]

\* a commitment whose serialization leaves the value out
ArkNote_commitment_novalue(note) ==
    <<"hash_to_curve",
      <<note.owner_address, note.token_address, 0, note.rcm, note.data,
        note.spent_note_nf, note.psi>>, note.rcm>>

\* Note::commitment : hash_to_curve of all the serialized fields, with rcm
ArkNote_commitment(note) ==
    <<"hash_to_curve",
      <<note.owner_address, note.token_address, note.value, note.rcm,
        note.data, note.spent_note_nf, note.psi>>, note.rcm>>

\* the nullifier of a note as ActionInfo::build derives it, lines 71-78
ArkNote_nullifier(nk, note) ==
    Nullifier_derive_native(nk, note.spent_note_nf, note.psi,
                            ArkNote_commitment(note))

\* the values a field of a note is drawn from
NoteFieldValues(field) ==
    CASE field = "value" -> 0..MaxValue
      [] field = "token_address" -> {<<"token", 1>>, <<"token", 2>>}
      [] field = "spent_note_nf" -> {<<"rho", 1>>, <<"rho", 2>>}
      [] field = "psi" -> {<<"psi", 1>>, <<"psi", 2>>}
      [] field = "rcm" -> { RngDraw(RngNew(seed)) : seed \in Seeds }

VARIABLES
    n_pc,       \* "new", "note" or "derived"
    n_note,     \* a note
    n_changed,  \* the note with one field changed
    n_field,    \* the field that was changed
    n_nf        \* the spending key and the nullifiers of the two notes

nvars == <<n_pc, n_note, n_changed, n_field, n_nf>>

NoArkNote == [none |-> TRUE]
NoNullifiers == [nk |-> <<"nk", 0>>, of_note |-> <<>>, of_changed |-> <<>>]

InitNote ==
    /\ n_pc = "new"
    /\ n_note = NoArkNote
    /\ n_changed = NoArkNote
    /\ n_field = "none"
    /\ n_nf = NoNullifiers

\* Note::new with the caller's fields and randomness source
NewArkNote ==
    /\ n_pc = "new"
    /\ \E token \in NoteFieldValues("token_address"),
          value \in NoteFieldValues("value"),
          rho \in NoteFieldValues("spent_note_nf"),
          psi \in NoteFieldValues("psi"), seed \in Seeds :
          LET note == ArkNote_new(<<"owner", 1>>, token, value, rho, psi,
                                  RngNew(seed))
          IN  /\ n_note' = note
              /\ n_changed' = note
    /\ n_pc' = "note"
    /\ UNCHANGED <<n_field, n_nf>>

\* a second note that differs from the first in one field
ChangeOneField ==
    /\ n_pc = "note"
    /\ n_field = "none"
    /\ \E field \in {"value", "token_address", "spent_note_nf", "psi", "rcm"} :
          \E v \in NoteFieldValues(field) \ {n_note[field]} :
              /\ n_changed' = [n_note EXCEPT ![field] = v]
              /\ n_field' = field
    /\ UNCHANGED <<n_pc, n_note, n_nf>>

\* the nullifiers of both notes under one spending key
DeriveNullifiers ==
    /\ n_pc = "note"
    /\ \E nk \in {<<"nk", 1>>, <<"nk", 2>>} :
          n_nf' = [nk |-> nk, of_note |-> ArkNote_nullifier(nk, n_note),
                   of_changed |-> ArkNote_nullifier(nk, n_changed)]
    /\ n_pc' = "derived"
    /\ UNCHANGED <<n_note, n_changed, n_field>>

NextNote ==
    \/ NewArkNote
    \/ ChangeOneField
    \/ DeriveNullifiers

(* ================= net value commitments on their own ================== *)
\* to_affine().coordinates() : the point at infinity has none
AffineCoordinates(point) ==
    IF point = PointIdentity THEN [none |-> TRUE]
    ELSE [x |-> <<"affine_x", point.g, point.r>>,
          y |-> <<"affine_y", point.g, point.r>>]

\* a get_x that unwraps the coordinates of whatever point it holds
NetValueCommitment_get_x_unguarded(cv) ==
    IF "x" \in DOMAIN AffineCoordinates(cv) THEN AffineCoordinates(cv).x
    ELSE <<"panic">>

\* NetValueCommitment::get_x
NetValueCommitment_get_x(cv) ==
    IF cv = PointIdentity THEN <<"zero">>
    ELSE IF "x" \in DOMAIN AffineCoordinates(cv) THEN AffineCoordinates(cv).x
    ELSE <<"panic">>

\* NetValueCommitment::get_y
NetValueCommitment_get_y(cv) ==
    IF cv = PointIdentity THEN <<"zero">>
    ELSE IF "y" \in DOMAIN AffineCoordinates(cv) THEN AffineCoordinates(cv).y
    ELSE <<"panic">>

\* the part of a note NetValueCommitment::new reads
ValueNotes ==
    { [is_merkle_checked |-> TRUE, app_vk |-> app, app_data_static |-> <<"zero">>,
       value |-> v] :
        app \in {COMPRESSED_TOKEN_VK, COMPRESSED_INTENT_VK},
        v \in 0..MaxTokenValue }

VARIABLES
    w_cvs,     \* the net value commitments made, each with its arguments
    w_xy       \* the coordinates read from the commitment made last

wvars == <<w_cvs, w_xy>>

NoCoordinates == [x |-> <<"none">>, y |-> <<"none">>]

InitValueCommitment ==
    /\ w_cvs = <<>>
    /\ w_xy = NoCoordinates

\* NetValueCommitment::new on notes and a blinding scalar of the caller
NewNetValueCommitment ==
    /\ Len(w_cvs) < NUM_NOTE
    /\ \E input_note \in ValueNotes, output_note \in ValueNotes,
          blind_r \in 0..MaxSeed :
          w_cvs' = Append(w_cvs,
                      [input_note |-> input_note, output_note |-> output_note,
                       blind_r |-> blind_r,
                       cv |-> NetValueCommitment_new(input_note, output_note,
                                                     blind_r)])
    /\ w_xy' = NoCoordinates

\* get_x and get_y on the commitment made last
GetCoordinates ==
    /\ w_cvs # <<>>
    /\ w_xy = NoCoordinates
    /\ w_xy' = [x |-> NetValueCommitment_get_x(w_cvs[Len(w_cvs)].cv),
                y |-> NetValueCommitment_get_y(w_cvs[Len(w_cvs)].cv)]
    /\ UNCHANGED w_cvs

NextValueCommitment ==
    \/ NewNetValueCommitment
    \/ GetCoordinates

(* ============ padded and zero-valued partial transactions ============== *)
\* create_token_swap_ptx with lines 70-72 and 106-117 replaced: the second
\* slot holds token notes of value zero of the named token, made and proved
\* as the notes of the first slot are, from the draws the padding notes take
create_token_swap_ptx_zero_valued(rng, zero_name, input_token, input_auth_sk, input_nk, output_token, output_auth_pk, output_nk_com) ==
    LET notes == SwapPtxNotes(rng, input_token, input_auth_sk, input_nk,
                              output_token, output_auth_pk, output_nk_com)
        input_auth == TokenAuthorization_from_sk_vk(input_auth_sk,
                                                     COMPRESSED_TOKEN_AUTH_VK)
        output_auth == TokenAuthorization_new(output_auth_pk,
                                              COMPRESSED_TOKEN_AUTH_VK)
        zero_input_note ==
            create_random_token_note(Advance(rng, 5), Token_new(zero_name, 0),
                                     Draw(rng, 3), NkKey(<<"nk", Draw(rng, 4)>>),
                                     input_auth)
        zero_output_note ==
            create_random_token_note(Advance(rng, 7), Token_new(zero_name, 0),
                                     Note_get_nf(zero_input_note),
                                     NkCommitment(<<"com_nk", <<"nk", Draw(rng, 6)>>>>),
                                     output_auth)
        merkle_path == MerklePath_random(Advance(rng, 8),
                                         TAIGA_COMMITMENT_TREE_DEPTH)
    IN  IF Note_get_nf(notes.input_notes[1]) = None THEN NoPtx
        ELSE ShieldedPartialTransaction_build(
                 <<generate_input_token_note_proving_info(notes.input_notes[1],
                                                          merkle_path),
                   generate_input_token_note_proving_info(zero_input_note,
                                                          merkle_path)>>,
                 <<generate_output_token_note_proving_info(notes.output_notes[1]),
                   generate_output_token_note_proving_info(zero_output_note)>>,
                 Advance(rng, SwapPtxDraws))

\* Transaction::execute as one result
Transaction_execute(tx) ==
    IF HasDuplicateNullifier(tx) THEN "DuplicateNullifierError"
    ELSE IF \E p \in 1..Len(tx.shielded) : ~PtxVerify(tx.shielded[p])
         THEN "ProofVerificationError"
         ELSE IF TxBalanced(tx) THEN "Ok" ELSE "UnbalancedTransactionError"

VARIABLES
    p_pc,       \* "build", "enclose", "execute", "done" or "panicked"
    p_padded,   \* the partial transaction with explicit padding notes
    p_zeroed,   \* the one with zero-valued token notes in the same slots
    p_txs,      \* the two enclosing transactions, equal but for that one
    p_result    \* what execute returned for each

pvars == <<p_pc, p_padded, p_zeroed, p_txs, p_result>>

NoResults == [padded |-> "none", zeroed |-> "none"]

InitPadding ==
    /\ p_pc = "build"
    /\ p_padded = NoPtx
    /\ p_zeroed = NoPtx
    /\ p_txs = [padded |-> NoTx, zeroed |-> NoTx]
    /\ p_result = NoResults

\* one party builds its partial transaction both ways from the same notes
\* and the same randomness; the builder's panic ends the run
BuildBothWays ==
    /\ p_pc = "build"
    /\ \E seed \in Seeds, output_token \in Tokens, input_nk \in InputNks,
          zero_name \in TokenNames :
          LET sk == <<"sk", Fixed(1)>>
              com == NkCommitment(<<"com_nk", <<"nk", Fixed(2)>>>>)
              padded == create_token_swap_ptx(RngNew(seed), Token_new("btc", 1),
                            sk, input_nk, output_token, PublicKey(sk), com)
              zeroed == create_token_swap_ptx_zero_valued(RngNew(seed),
                            zero_name, Token_new("btc", 1), sk, input_nk,
                            output_token, PublicKey(sk), com)
          IN  /\ p_padded' = padded
              /\ p_zeroed' = zeroed
              /\ p_pc' = IF padded = NoPtx \/ zeroed = NoPtx THEN "panicked"
                         ELSE "enclose"
    /\ UNCHANGED <<p_txs, p_result>>

\* the partial transactions of other parties a transaction may hold
OtherPtxs ==
    { create_token_swap_ptx(RngNew(seed), Token_new("btc", 1),
          <<"sk", Fixed(1)>>, NkKey(<<"nk", Fixed(1)>>), output_token,
          PublicKey(<<"sk", Fixed(1)>>),
          NkCommitment(<<"com_nk", <<"nk", Fixed(2)>>>>)) :
        seed \in Seeds, output_token \in Tokens }

\* the same partial transaction with a proof that does not verify
WithBadProof(ptx, part, i) == [ptx EXCEPT ![part][i].proof_ok = FALSE]

\* Transaction::build around either one: alone, or with up to MaxPool - 1
\* partial transactions of others, k of them in front, the first of them
\* possibly with a proof of its first slot forged
EncloseBoth ==
    /\ p_pc = "enclose"
    /\ \E others \in SeqsUpTo(OtherPtxs, MaxPool - 1) :
       \E k \in 0..Len(others), forged \in BOOLEAN,
          part \in {"actions", "inputs", "outputs"} :
          /\ forged => others # <<>>
          /\ ~forged => part = "actions"
          /\ \E held \in {IF forged
                          THEN <<WithBadProof(others[1], part, 1)>>
                               \o Tail(others)
                          ELSE others} :
                p_txs' =
                    [padded |-> Transaction_build(SubSeq(held, 1, k)
                                    \o <<p_padded>>
                                    \o SubSeq(held, k + 1, Len(held))),
                     zeroed |-> Transaction_build(SubSeq(held, 1, k)
                                    \o <<p_zeroed>>
                                    \o SubSeq(held, k + 1, Len(held)))]
    /\ p_pc' = "execute"
    /\ UNCHANGED <<p_padded, p_zeroed, p_result>>

\* Transaction::execute on both
ExecuteBoth ==
    /\ p_pc = "execute"
    /\ p_result' = [padded |-> Transaction_execute(p_txs.padded),
                    zeroed |-> Transaction_execute(p_txs.zeroed)]
    /\ p_pc' = "done"
    /\ UNCHANGED <<p_padded, p_zeroed, p_txs>>

NextPadding ==
    \/ BuildBothWays
    \/ EncloseBoth
    \/ ExecuteBoth

vars == <<avars, tvars, cvars, bvars, vpvars, nvars, wvars, pvars>>

Init == InitAction /\ InitTx /\ InitApi /\ InitByteCode /\ InitVp
        /\ InitNote /\ InitValueCommitment /\ InitPadding

\* the action builder alone
SpecAction == Init /\ [][NextAction /\ UNCHANGED <<tvars, cvars, bvars, vpvars, nvars, wvars, pvars>>]_vars

\* the transaction layer alone
SpecTx == Init /\ [][NextTx /\ UNCHANGED <<avars, cvars, bvars, vpvars, nvars, wvars, pvars>>]_vars

\* the API context alone
SpecApi == Init /\ [][NextApi /\ UNCHANGED <<avars, tvars, bvars, vpvars, nvars, wvars, pvars>>]_vars

\* the bytecode of one application alone
SpecByteCode ==
    Init /\ [][NextByteCode /\ UNCHANGED <<avars, tvars, cvars, vpvars, nvars, wvars, pvars>>]_vars

\* the validity predicate circuits alone
SpecVp ==
    Init /\ [][NextVp /\ UNCHANGED <<avars, tvars, cvars, bvars, nvars, wvars, pvars>>]_vars

\* the notes of note.rs alone
SpecNote ==
    Init /\ [][NextNote /\ UNCHANGED <<avars, tvars, cvars, bvars, vpvars, wvars, pvars>>]_vars

\* net value commitments alone
SpecValueCommitment ==
    Init /\ [][NextValueCommitment /\
              UNCHANGED <<avars, tvars, cvars, bvars, vpvars, nvars, pvars>>]_vars

\* the two ways of filling the slots of a partial transaction alone
SpecPadding ==
    Init /\ [][NextPadding /\
              UNCHANGED <<avars, tvars, cvars, bvars, vpvars, nvars, wvars>>]_vars

\* the construction operations: a run of ActionInfo::build or of the
\* validity predicate circuits, the other one at rest
NextConstruction ==
    \/ InitVp /\ NextAction /\ UNCHANGED <<tvars, cvars, bvars, vpvars, nvars, wvars, pvars>>
    \/ InitAction /\ NextVp /\ UNCHANGED <<avars, tvars, cvars, bvars, nvars, wvars, pvars>>

SpecConstruction == Init /\ [][NextConstruction]_vars

\* the places that hand note arrays on: a run of the transaction layer or
\* of the validity predicate circuits, the other one at rest
NextHandOver ==
    \/ InitVp /\ NextTx /\ UNCHANGED <<avars, cvars, bvars, vpvars, nvars, wvars, pvars>>
    \/ InitTx /\ NextVp /\ UNCHANGED <<avars, tvars, cvars, bvars, nvars, wvars, pvars>>

SpecHandOver == Init /\ [][NextHandOver]_vars

\* the two crates are separate programs: a run is a run of the action builder
\* (src/src) or of the transaction layer (taiga_halo2), the other one at rest
Next ==
    \/ InitTx /\ NextAction /\ UNCHANGED <<tvars, cvars, bvars, vpvars, nvars, wvars, pvars>>
    \/ InitAction /\ NextTx /\ UNCHANGED <<avars, cvars, bvars, vpvars, nvars, wvars, pvars>>

Spec == Init /\ [][Next]_vars

(* ======================= properties of ActionInfo::build =============== *)
\* positions of build at which the named local has been assigned
NfAssigned == a_pc \in {"note", "output_cm", "ret", "done"}
OutputNoteAssigned == a_pc \in {"output_cm", "ret", "done"}
OutputCmAssigned == a_pc \in {"ret", "done"}

\* C1: build chains nullifiers.  The nullifier is derived from the spent
\* note's own key, rho, psi and commitment; the output note is made with rho
\* equal to that nullifier; the output commitment exists only once the output
\* note with that rho exists and binds that rho; the Action publishes the
\* same nullifier.
C1_NullifierChaining ==
    /\ NfAssigned =>
          /\ a_info.spend.note.user.send_com[1] = "open"
          /\ a_nf = <<"nf", a_info.spend.note.user.send_com[2],
                       a_info.spend.note.rho, a_info.spend.note.psi,
                       ActionNote_commitment(a_info.spend.note)>>
    /\ OutputNoteAssigned => a_output_note.rho = a_nf
    /\ ~OutputNoteAssigned => a_output_cm = None
    /\ OutputCmAssigned =>
          /\ a_output_cm[1] = "cm"
          /\ a_output_cm[6] = a_nf
          /\ a_output_cm = ActionNote_commitment(a_output_note)
    /\ a_pc = "done" =>
          /\ a_action.nf = a_output_note.rho
          /\ a_action.nf = a_nf
          /\ a_action.cm[6] = a_action.nf

\* build returned an Action whose nullifier is the output note's rho and
\* differs from the spent note's rho
C1_Witness ==
    /\ a_pc = "done"
    /\ a_action.nf = a_output_note.rho
    /\ a_action.nf # a_info.spend.note.rho

\* the root of a path over a leaf, folded level by level from the bottom
RECURSIVE FoldUpTo(_, _, _)
FoldUpTo(path, leaf, n) ==
    IF n = 0 THEN leaf
    ELSE LET below == FoldUpTo(path, leaf, n - 1)
         IN  IF path[n][2] THEN <<"H", path[n][1], below>>
             ELSE <<"H", below, path[n][1]>>

\* C2: the Action returned by build carries the root obtained by folding the
\* merkle path given to SpendInfo::new bottom-up from the spent note's
\* commitment, and its public values are exactly that root, the spent note's
\* nullifier and the output note's commitment.
C2_AnchorFromPath ==
    LET expected == FoldUpTo(a_path,
                             <<"x", ActionNote_commitment(a_info.spend.note)>>,
                             Len(a_path))
    IN  /\ a_pc # "idle" =>
              /\ a_info.spend.root = expected
              /\ Len(a_info.spend.auth_path) = TAIGA_COMMITMENT_TREE_DEPTH
        /\ a_pc = "done" =>
              /\ DOMAIN a_action = {"root", "nf", "cm"}
              /\ a_action.root = expected
              /\ a_action.nf = a_nf
              /\ a_action.cm = ActionNote_commitment(a_output_note)

\* build returned an Action for a path with a right-child level and a
\* left-child level
C2_Witness ==
    /\ a_pc = "done"
    /\ \E i, j \in DOMAIN a_path : a_path[i][2] /\ ~a_path[j][2]
    /\ a_action.root[1] = "H"

\* C3: when the spent note's address holds only a commitment to the
\* nullifier key, build fails at the unwrap: no nullifier, no output note and
\* no Action is produced, and a derived nullifier is always keyed by the key
\* of an open address.
C3_NoNullifierFromCommitment ==
    /\ (a_pc # "idle" /\ a_info.spend.note.user.send_com[1] = "closed") =>
          /\ a_nf = None
          /\ a_output_note = NoNote
          /\ a_output_cm = None
          /\ a_action = NoNote
          /\ a_pc \in {"spend_cm", "nf", "panic"}
    /\ a_pc = "panic" => a_info.spend.note.user.send_com[1] = "closed"
    /\ a_nf # None =>
          /\ a_info.spend.note.user.send_com[1] = "open"
          /\ a_nf[2] = a_info.spend.note.user.send_com[2]
    /\ \A p \in 1..Len(t_pool) : \A i \in 1..Len(t_pool[p].inputs) :
          LET note == t_pool[p].inputs[i].note
          IN  /\ note.nk_container[1] = "Key"
              /\ t_pool[p].actions[i].nf[1] = "nf"
              /\ t_pool[p].actions[i].nf[2] = note.nk_container[2]
    /\ (t_err = "panic") = (e_pc = "panicked")
    /\ e_pc = "panicked" => t_tx = NoTx

\* build panicked on a closed address
C3_Witness ==
    /\ a_pc = "panic"
    /\ a_info.spend.note.user.send_com[1] = "closed"
    /\ a_action = NoNote


(* =================== properties of the transaction layer =============== *)
\* the application of a note: its validity predicate and its static data
AppOf(note) == <<note.app_vk, note.app_data_static>>

\* the notes of a bundle, partial transaction after partial transaction
RECURSIVE BundleNotes(_, _)
BundleNotes(bundle, side) ==
    IF bundle = <<>> THEN <<>>
    ELSE [i \in 1..Len(Head(bundle)[side]) |-> Head(bundle)[side][i].note]
         \o BundleNotes(Tail(bundle), side)

\* total value the notes of a sequence carry for an application
RECURSIVE AppTotal(_, _)
AppTotal(notes, app) ==
    IF notes = <<>> THEN 0
    ELSE (IF AppOf(Head(notes)) = app THEN Head(notes).value ELSE 0)
         + AppTotal(Tail(notes), app)

AppsOf(notes) == { AppOf(notes[i]) : i \in 1..Len(notes) }

\* every application's input total equals its output total
PerAppBalanced(ins, outs) ==
    \A app \in AppsOf(ins) \cup AppsOf(outs) :
        AppTotal(ins, app) = AppTotal(outs, app)

\* the sum of the transaction's value commitments with the binding key's
\* blinding taken off
TxValueSum(tx) ==
    PointSub(PointSum(TxValueCommitments(tx.shielded)),
             PointMul(NOTE_COMMITMENT_R_GENERATOR, tx.bsk))

\* the transaction is what a per-application balanced transaction becomes
\* when the value of one output note is changed
OneOutputPerturbed(tx) ==
    LET ins == BundleNotes(tx.shielded, "inputs")
        outs == BundleNotes(tx.shielded, "outputs")
    IN  /\ ~PerAppBalanced(ins, outs)
        /\ \E k \in 1..Len(outs), v \in 0..(MaxTokenValue + 1) :
              PerAppBalanced(ins, [outs EXCEPT ![k].value = v])

\* no defect other than the balance: nullifiers distinct, proofs valid
OtherwiseValid(tx) ==
    /\ \A p \in 1..Len(tx.shielded) :
          \A part \in {"actions", "inputs", "outputs"} :
             \A i \in 1..Len(tx.shielded[p][part]) :
                tx.shielded[p][part][i].proof_ok
    /\ LET ins == BundleNotes(tx.shielded, "inputs")
       IN  \A i, j \in 1..Len(ins) :
              i < j => Note_get_nf(ins[i]) # Note_get_nf(ins[j])

\* C4: execute accepts only a transaction whose value commitments sum to the
\* identity; a transaction whose applications each have equal input and
\* output totals sums to the identity; changing the value of one output note
\* of such a transaction makes the sum non-identity and execute return
\* UnbalancedTransactionError.
C4_ZeroSumCheck ==
    t_tx # NoTx =>
        LET ins == BundleNotes(t_tx.shielded, "inputs")
            outs == BundleNotes(t_tx.shielded, "outputs")
        IN  /\ e_result = "Ok" => TxValueSum(t_tx) = PointIdentity
            /\ PerAppBalanced(ins, outs) => TxValueSum(t_tx) = PointIdentity
            /\ OneOutputPerturbed(t_tx) =>
                  /\ TxValueSum(t_tx) # PointIdentity
                  /\ e_result # "Ok"
                  /\ (e_pc = "done" /\ OtherwiseValid(t_tx)) =>
                        e_result = "UnbalancedTransactionError"

\* execute rejected a two-party transaction that is one changed output value
\* away from being balanced for every application
C4_Witness ==
    /\ e_pc = "done"
    /\ Len(t_tx.shielded) = 2
    /\ t_delta = NoDelta
    /\ OneOutputPerturbed(t_tx)
    /\ e_result = "UnbalancedTransactionError"

\* inputs carry v > 0 units of one application, outputs carry v units of
\* another application, nothing else carries value, and the blinding is zero
CrossApplication(tx) ==
    LET ins == BundleNotes(tx.shielded, "inputs")
        outs == BundleNotes(tx.shielded, "outputs")
    IN  /\ tx.bsk = 0
        /\ \A p \in 1..Len(tx.shielded) : \A i \in 1..Len(tx.shielded[p].actions) :
              tx.shielded[p].actions[i].cv_net.r = 0
        /\ \E a \in AppsOf(ins), b \in AppsOf(outs) :
              /\ a # b
              /\ AppTotal(ins, a) > 0
              /\ AppTotal(outs, b) = AppTotal(ins, a)
              /\ \A c \in (AppsOf(ins) \cup AppsOf(outs)) :
                    /\ c # a => AppTotal(ins, c) = 0
                    /\ c # b => AppTotal(outs, c) = 0

\* C5: values of different applications are never netted against each other:
\* a transaction whose inputs carry v > 0 units of application A and whose
\* outputs carry v units of a different application B, with zero blinding,
\* does not sum to the identity and is rejected as unbalanced.
C5_NoCrossApplicationNetting ==
    (t_tx # NoTx /\ CrossApplication(t_tx)) =>
        /\ TxValueSum(t_tx) # PointIdentity
        /\ (e_pc = "done" /\ OtherwiseValid(t_tx)) =>
              e_result = "UnbalancedTransactionError"

BTC == <<COMPRESSED_TOKEN_VK, <<"name", "btc">>>>
ETH == <<COMPRESSED_TOKEN_VK, <<"name", "eth">>>>

\* C6: the partial-fulfilment swap scenario (Alice sells 2 BTC through an
\* intent note asking 10 ETH, Bob gives 5 ETH for 1 BTC, the solver consumes
\* the intent note into the bought and the returned note), every partial
\* transaction padded to N = 2 notes, balances for BTC, ETH and the intent
\* application, and execute succeeds.
C6_SwapScenarioBalances ==
    t_delta = ScenarioDelta(0) =>
        LET ins == BundleNotes(t_tx.shielded, "inputs")
            outs == BundleNotes(t_tx.shielded, "outputs")
        IN  /\ Len(t_tx.shielded) = 3
            /\ \A p \in 1..3 : /\ Len(t_tx.shielded[p].inputs) = NUM_NOTE
                               /\ Len(t_tx.shielded[p].outputs) = NUM_NOTE
            /\ AppTotal(ins, BTC) = 2 /\ AppTotal(outs, BTC) = 2
            /\ AppTotal(ins, ETH) = 5 /\ AppTotal(outs, ETH) = 5
            /\ \E intent \in AppsOf(ins) :
                  /\ intent[1] = COMPRESSED_INTENT_VK
                  /\ AppTotal(ins, intent) = 1 /\ AppTotal(outs, intent) = 1
            /\ PerAppBalanced(ins, outs)
            /\ TxValueSum(t_tx) = PointIdentity
            /\ e_pc = "done" => e_result = "Ok"

\* execute accepted the swap scenario built with non-zero blinding
C6_Witness ==
    /\ t_delta = ScenarioDelta(0)
    /\ e_pc = "done"
    /\ e_result = "Ok"
    /\ t_tx.bsk # 0

\* C7: in the swap scenario with the returned note's amount changed by one
\* unit, execute fails with UnbalancedTransactionError.
C7_PerturbedReturnUnbalanced ==
    (t_delta.on /\ t_delta.by \in {-1, 1}) =>
        /\ t_tx.shielded[3].outputs[2].note.value = 1 + t_delta.by
        /\ TxValueSum(t_tx) = PointMul(PointGenerator, 0 - t_delta.by)
        /\ e_result # "Ok"
        /\ e_pc = "done" => e_result = "UnbalancedTransactionError"

\* execute rejected the swap scenario whose returned amount is one unit short
C7_Witness ==
    /\ t_delta = ScenarioDelta(-1)
    /\ e_pc = "done"
    /\ e_result = "UnbalancedTransactionError"

\* positions (partial transaction, slot) of two input notes with one nullifier
DuplicatePositions(tx) ==
    { pq \in ((1..Len(tx.shielded)) \X (1..NUM_NOTE))
                \X ((1..Len(tx.shielded)) \X (1..NUM_NOTE)) :
        /\ pq[1] # pq[2]
        /\ Note_get_nf(tx.shielded[pq[1][1]].inputs[pq[1][2]].note)
             = Note_get_nf(tx.shielded[pq[2][1]].inputs[pq[2][2]].note) }

\* C8: execute fails with DuplicateNullifierError whenever two input notes of
\* the transaction have the same nullifier, also when they sit in different
\* partial transactions.
C8_DuplicateNullifierRejected ==
    (e_pc = "done" /\ DuplicatePositions(t_tx) # {}) =>
        e_result = "DuplicateNullifierError"

\* execute rejected a transaction of two different partial transactions that
\* spend a note with the same nullifier
C8_Witness ==
    /\ e_pc = "done"
    /\ e_result = "DuplicateNullifierError"
    /\ Len(t_tx.shielded) = 2
    /\ t_tx.shielded[1] # t_tx.shielded[2]
    /\ \E pq \in DuplicatePositions(t_tx) : pq[1][1] # pq[2][1]

\* some proof of the partial transaction does not verify
HasBadProof(ptx) ==
    \E part \in {"actions", "inputs", "outputs"} :
        \E i \in 1..Len(ptx[part]) : ~ptx[part][i].proof_ok

\* C9: verification is all-or-nothing: execute ends with one result for the
\* whole transaction; it is an error if any proof of any partial transaction
\* fails to verify or the aggregate sum is not the identity, and it is Ok only
\* when every partial transaction was verified and found valid.
C9_AllOrNothing ==
    /\ e_pc # "done" => e_result = "none"
    /\ e_pc = "done" =>
          /\ e_result \in {"Ok", "DuplicateNullifierError",
                           "ProofVerificationError",
                           "UnbalancedTransactionError"}
          /\ (\E p \in 1..Len(t_tx.shielded) : HasBadProof(t_tx.shielded[p]))
                => e_result # "Ok"
          /\ TxValueSum(t_tx) # PointIdentity => e_result # "Ok"
          /\ e_result = "Ok" =>
                /\ e_idx = Len(t_tx.shielded) + 1
                /\ \A p \in 1..Len(t_tx.shielded) :
                      ~HasBadProof(t_tx.shielded[p])

\* execute rejected a balanced two-party transaction whose first partial
\* transaction is valid and whose second carries a bad validity-predicate proof
C9_Witness ==
    /\ e_pc = "done"
    /\ e_result = "ProofVerificationError"
    /\ Len(t_tx.shielded) = 2
    /\ ~HasBadProof(t_tx.shielded[1])
    /\ ~t_tx.shielded[2].outputs[1].proof_ok
    /\ TxValueSum(t_tx) = PointIdentity

\* a slot holds a padding note: zero value, not membership-checked, governed
\* by the trivial validity predicate
IsPadding(slot) ==
    /\ slot.note.value = 0
    /\ slot.note.is_merkle_checked = FALSE
    /\ slot.note.app_vk = COMPRESSED_TRIVIAL_VP_VK
    /\ slot.app_vp = "trivial"

\* number of slots of a side that hold a genuine note
RECURSIVE GenuineCount(_)
GenuineCount(slots) ==
    IF slots = <<>> THEN 0
    ELSE (IF IsPadding(Head(slots)) THEN 0 ELSE 1) + GenuineCount(Tail(slots))

\* notes, public values and proofs of a partial transaction: the notes of
\* both sides, anchor, nullifier, commitment and net value commitment of each
\* action, one action proof per action and one proof set per note
PtxShape(ptx) ==
    [inputs |-> Len(ptx.inputs), outputs |-> Len(ptx.outputs),
     public |-> IntSum([i \in 1..Len(ptx.actions) |->
                   Cardinality(DOMAIN ptx.actions[i] \ {"proof_ok"})]),
     proofs |-> Len(ptx.actions) + Len(ptx.inputs) + Len(ptx.outputs)]

FixedShape ==
    [inputs |-> NUM_NOTE, outputs |-> NUM_NOTE, public |-> 4 * NUM_NOTE,
     proofs |-> 3 * NUM_NOTE]

PathNode(path, leaf, j) == MerkleFold(SubSeq(path, 1, j), leaf, 1)

\* C11: for every list of leaves and every position i of a leaf in it, the
\* path built for i has exactly TAIGA_COMMITMENT_TREE_DEPTH (sibling, is-right)
\* pairs and its root over that leaf is the root of the tree over the leaves;
\* at each level the bit is the bit of the position, the hash takes the
\* current node first when the bit is 0 and the sibling first when it is 1,
\* and the node reached is the node of the tree above the leaf; the paths
\* retrieve_owned_notes hands out are such paths.
C11_PathRootsTree ==
    /\ \A i \in 1..Len(c_leaves) :
          LET path == MerklePath_build_merkle_path(c_leaves, i - 1)
              leaf == c_leaves[i]
          IN  /\ Len(path) = TAIGA_COMMITMENT_TREE_DEPTH
              /\ MerklePath_root(path, leaf) = Tree_current_root(c_leaves)
              /\ \A j \in 1..TAIGA_COMMITMENT_TREE_DEPTH :
                    LET bit == ((i - 1) \div Pow2(j - 1)) % 2 = 1
                        cur == PathNode(path, leaf, j - 1)
                    IN  /\ path[j][2] = bit
                        /\ PathNode(path, leaf, j) =
                              IF bit THEN <<"H", path[j][1], cur>>
                              ELSE <<"H", cur, path[j][1]>>
                        /\ PathNode(path, leaf, j) =
                              TreeLevel(PadLeaves(c_leaves), j)[((i - 1) \div Pow2(j)) + 1]
    /\ c_query.call = "retrieve_owned_notes" =>
       \A k \in 1..Len(c_out.notes) :
          /\ Len(c_out.notes[k].merkle_path) = TAIGA_COMMITMENT_TREE_DEPTH
          /\ MerklePath_root(c_out.notes[k].merkle_path, c_out.notes[k].note_cm)
                = Tree_current_root(c_leaves)

\* a caller was handed the path of a leaf that is a right child, in a tree of
\* several leaves
C11_Witness ==
    /\ Len(c_leaves) >= 2
    /\ c_query.call = "retrieve_owned_notes"
    /\ c_out.kind = "Ok"
    /\ \E k \in 1..Len(c_out.notes) :
          /\ c_out.notes[k].merkle_path[1][2]
          /\ c_out.notes[k].note_cm # c_leaves[1]

(* ==================== properties of the anchor check =================== *)
\* the partial transactions collected or built into the transaction
KnownPtxs ==
    {t_pool[k] : k \in 1..Len(t_pool)} \cup
    (IF t_tx = NoTx THEN {} ELSE {t_tx.shielded[k] : k \in 1..Len(t_tx.shielded)})

\* the root of input i's path over input i's commitment
InputRoot(ptx, i) ==
    Note_calculate_root(ptx.inputs[i].note, ptx.inputs[i].merkle_path)

\* C12: when a partial transaction is built, the anchor supplied for an input
\* note with is_merkle_checked = true must be the root of its path over its
\* commitment, otherwise construction fails with MerkleInconsistencyError and
\* nothing is built; for an input note with is_merkle_checked = false (the
\* padding and intent notes of the examples, given a random path and a random
\* anchor) any anchor is accepted.
C12_AnchorChecked ==
    /\ (t_err = "MerkleInconsistencyError") =
          (t_anchor.on /\ t_anchor.checked /\ ~t_anchor.is_root)
    /\ t_err = "MerkleInconsistencyError" =>
          /\ e_pc = "rejected"
          /\ t_pool = <<>>
          /\ t_tx = NoTx
    /\ \A ptx \in KnownPtxs : \A i \in 1..Len(ptx.inputs) :
          ptx.inputs[i].note.is_merkle_checked =>
              ptx.actions[i].anchor = InputRoot(ptx, i)
    /\ (t_anchor.on /\ ~t_anchor.checked) =>
          /\ t_err # "MerkleInconsistencyError"
          /\ Len(t_pool) >= 1
          /\ ~t_pool[1].inputs[1].note.is_merkle_checked
          /\ t_anchor.is_root = (t_pool[1].actions[1].anchor = InputRoot(t_pool[1], 1))
    /\ t_delta.on =>
          /\ \A k \in 1..3 :
                /\ ~t_tx.shielded[k].inputs[2].note.is_merkle_checked
                /\ t_tx.shielded[k].actions[2].anchor # InputRoot(t_tx.shielded[k], 2)
          /\ ~t_tx.shielded[3].inputs[1].note.is_merkle_checked
          /\ t_tx.shielded[3].inputs[1].app_vp = "partial_fulfillment_intent"
          /\ t_tx.shielded[3].actions[1].anchor # InputRoot(t_tx.shielded[3], 1)

\* the construction of a spend of a membership-checked note was refused
\* because the supplied anchor is not the root of its path
C12_Witness ==
    /\ e_pc = "rejected"
    /\ t_err = "MerkleInconsistencyError"
    /\ t_anchor = SuppliedAnchor(TRUE, FALSE)

(* ====================== properties of VP bytecode ====================== *)
\* the VP bytecodes of an application, the governing one first
AppVps(app) == <<app.app_vp_bytecode>> \o app.dynamic_vp_bytecode

\* C13: serialization of VP bytecode round-trips losslessly: deserializing
\* the serialized form of a ValidityPredicateByteCode or of an
\* ApplicationByteCode gives it back, with the representation tag (VampIR or
\* Trivial), the payload bytes, the witness input bytes and the number and
\* order of the auxiliary VP bytecodes.
C13_SerializationRoundTrip ==
    /\ b_pc # "undecodable"
    /\ b_app # NoApp =>
          \A k \in 1..Len(AppVps(b_app)) :
              LET vp == AppVps(b_app)[k]
                  r == ValidityPredicateByteCode_deserialize(
                           ValidityPredicateByteCode_serialize(vp))
              IN  /\ r.ok /\ r.rest = <<>>
                  /\ r.val.circuit.tag = vp.circuit.tag
                  /\ r.val.circuit.payload = vp.circuit.payload
                  /\ r.val.inputs = vp.inputs
    /\ b_back # NoApp =>
          /\ b_back = b_app
          /\ Len(b_back.dynamic_vp_bytecode) = Len(b_app.dynamic_vp_bytecode)
          /\ \A k \in 1..Len(AppVps(b_app)) :
                /\ AppVps(b_back)[k].circuit.tag = AppVps(b_app)[k].circuit.tag
                /\ AppVps(b_back)[k].circuit.payload
                      = AppVps(b_app)[k].circuit.payload
                /\ AppVps(b_back)[k].inputs = AppVps(b_app)[k].inputs

\* a receiver decoded an application whose governing VP is a VampIR
\* representation of two payload bytes and whose two auxiliary VPs differ in tag
C13_Witness ==
    /\ b_back # NoApp
    /\ b_back.app_vp_bytecode.circuit = VampIR(<<255, 99>>)
    /\ Len(b_back.dynamic_vp_bytecode) = 2
    /\ b_back.dynamic_vp_bytecode[1].circuit.tag = "Trivial"
    /\ b_back.dynamic_vp_bytecode[2].circuit.tag = "VampIR"

\* a VampIR bytecode whose bytes do not describe a well-formed circuit
Malformed(vp) ==
    vp.circuit.tag = "VampIR" /\ ~DescribesCircuit(vp.circuit.payload)

\* the bytecode generate_proofs is at
CurrentVp == AppVps(b_back)[Len(b_infos) + 1]

\* C14: generate_proof on a VampIR representation whose bytes do not describe
\* a well-formed circuit fails with the outcome CircuitCompilationError; no
\* verifying info is ever returned for a malformed description.
C14_MalformedCircuitFails ==
    /\ \A vp \in VpByteCodes :
          Malformed(vp) =>
              ValidityPredicateByteCode_generate_proof(vp)
                  = ProofFailed("CircuitCompilationError")
    /\ b_back # NoApp =>
          /\ \A k \in 1..Len(b_infos) :
                /\ ~Malformed(AppVps(b_back)[k])
                /\ b_infos[k] = VerifyingInfo(AppVps(b_back)[k]).info
          /\ b_pc = "failed" =>
                (Malformed(CurrentVp) <=> b_out = "CircuitCompilationError")

\* generate_proofs stopped at an auxiliary VampIR bytecode that names no
\* well-formed circuit
C14_Witness ==
    /\ b_pc = "failed"
    /\ b_out = "CircuitCompilationError"
    /\ Len(b_infos) >= 1
    /\ Malformed(b_back.dynamic_vp_bytecode[b_idx])

\* a bytecode whose proof generation fails
BadVp(vp) == ValidityPredicateByteCode_generate_proof(vp).kind # "info"

\* C15: construction-time failures are detected before any proof is
\* generated: when at least one of the governing and auxiliary VPs handed to
\* generate_proofs is malformed or has an unsatisfying witness, the failure is
\* reported and proof generation has been run for none of the VPs; no failed
\* proof is dropped from the returned set.
C15_FailFastBeforeAnyProof ==
    b_back # NoApp =>
        /\ (\E k \in 1..Len(AppVps(b_back)) : BadVp(AppVps(b_back)[k])) =>
              /\ b_infos = <<>>
              /\ b_pc # "done"
        /\ b_pc = "done" => Len(b_infos) = Len(AppVps(b_back))


(* ================= properties of the signature VP ====================== *)
\* the public key committed in the app_data_dynamic of the test's owned note
CommittedPk == v_circuit.input_notes[1].app_data_dynamic[2]

\* the nullifiers and commitments of the circuit's notes as they are now
CircuitMessage ==
    <<Note_get_nf(v_circuit.input_notes[1]),
      Note_commitment(v_circuit.output_notes[1]),
      Note_get_nf(v_circuit.input_notes[2]),
      Note_commitment(v_circuit.output_notes[2])>>

\* C16: the signature VP is satisfied only if the app_data_dynamic of the
\* owned note is the hash commitment of the public key the signature is
\* verified under and of the two verifying keys; a signature made with a key
\* other than the one committed in the owned note is rejected even though it
\* is a valid signature.
C16_SignatureBoundToNote ==
    v_pc = "verified" =>
        /\ v_result = "satisfied" =>
              \E i \in 1..NUM_NOTE :
                  /\ Note_get_nf(v_circuit.input_notes[i])
                        = v_circuit.owned_note_pub_id
                  /\ v_circuit.input_notes[i].app_data_dynamic
                        = <<"poseidon", v_circuit.signature.pk,
                            v_circuit.vp_vk, v_circuit.receiver_vp_vk>>
        /\ CommittedPk # v_circuit.signature.pk => v_result = "unsatisfied"

\* a valid signature of a key that the owned note does not commit was checked
C16_Witness ==
    /\ v_pc = "verified"
    /\ v_edit = NoEdit
    /\ SignatureVerified(v_circuit)
    /\ CommittedPk # v_circuit.signature.pk
    /\ v_result = "unsatisfied"

\* C17: the signature from_sk_and_sign produces over the notes satisfies
\* s*G = R + H(R, pk, m)*pk with m = (nf of input 0, cm of output 0, nf of
\* input 1, cm of output 1) on both sides; a signed message has exactly
\* 2*NUM_NOTE elements, and once a nullifier or commitment of the message
\* has changed the verification equation fails.
C17_SignThenVerify ==
    /\ v_pc \in {"signed", "verified"} =>
          /\ v_edit = NoEdit =>
                /\ v_message = CircuitMessage
                /\ SignatureVerified(v_circuit)
          /\ v_message # CircuitMessage =>
                /\ ~SignatureVerified(v_circuit)
                /\ v_pc = "verified" => v_result = "unsatisfied"
    /\ v_pc \in {"signed", "verified", "signature"} =>
          Len(v_message) = NUM_NOTE * 2
    /\ (v_message # <<>> /\ Len(v_message) # NUM_NOTE * 2) => v_pc = "panic"

\* a commitment was changed after signing by the committed key, and the
\* circuit was checked
C17_Witness ==
    /\ v_pc = "verified"
    /\ v_edit = [part |-> "output_notes", i |-> 2]
    /\ v_message # CircuitMessage
    /\ AppDataDynamicEncoded(v_circuit)
    /\ v_result = "unsatisfied"


(* ================== properties of the balance VP ======================= *)
\* one application for the four notes, and as much value in as out
SameAppAndBalanced(bal) ==
    /\ Cardinality({ bal.input_notes[i].app_addr : i \in 1..NUM_NOTE } \cup
                   { bal.output_notes[i].app_addr : i \in 1..NUM_NOTE }) = 1
    /\ bal.input_notes[1].value + bal.input_notes[2].value
          = bal.output_notes[1].value + bal.output_notes[2].value

\* the output notes are the input notes of one application with the two
\* values exchanged, as test_balance_vp_example makes them
OutputsArePermutedInputs(bal) ==
    /\ bal.input_notes[1].app_addr = bal.input_notes[2].app_addr
    /\ bal.output_notes
          = <<[bal.input_notes[1] EXCEPT !.value = bal.input_notes[2].value],
              [bal.input_notes[2] EXCEPT !.value = bal.input_notes[1].value]>>

\* the notes of the balance VP before the one output value was changed
BeforeEdit ==
    IF v_edit = NoEdit THEN v_bal
    ELSE [v_bal EXCEPT !.output_notes[v_edit.i].value = @ - 1]

\* C18: the balance VP is satisfied exactly when every input and output note
\* has the application address of input note 0 and the input values sum to
\* the output values; it is satisfied when the outputs are the inputs with
\* their values permuted, and no longer once a single output value has been
\* changed.
C18_BalanceExact ==
    v_pc = "balance_checked" =>
        /\ v_result = "satisfied" <=> SameAppAndBalanced(v_bal)
        /\ OutputsArePermutedInputs(v_bal) => v_result = "satisfied"
        /\ (v_edit # NoEdit /\ SameAppAndBalanced(BeforeEdit)) =>
              v_result = "unsatisfied"

\* the outputs were the permuted inputs, the values differing, one output
\* value was changed and the VP checked
C18_Witness ==
    /\ v_pc = "balance_checked"
    /\ v_edit # NoEdit
    /\ OutputsArePermutedInputs(BeforeEdit)
    /\ v_bal.input_notes[1].value # v_bal.input_notes[2].value
    /\ v_result = "unsatisfied"


(* ================== properties of the nullifier ======================== *)
\* C19: the nullifier is a function of the spending key and of (rho, psi,
\* commitment): under one spending key two notes that agree on the three
\* have the same nullifier, and two notes that differ in exactly one field
\* among value, app descriptor (token_address), rho (spent_note_nf), psi and
\* random seed (rcm) have different nullifiers.
C19_NullifierFieldSensitive ==
    n_pc = "derived" =>
        /\ ( /\ n_note.spent_note_nf = n_changed.spent_note_nf
             /\ n_note.psi = n_changed.psi
             /\ ArkNote_commitment(n_note) = ArkNote_commitment(n_changed) )
              => n_nf.of_note = n_nf.of_changed
        /\ n_field = "none" => n_nf.of_note = n_nf.of_changed
        /\ n_field # "none" => n_nf.of_note # n_nf.of_changed

\* the nullifiers of two notes that differ in the value alone were derived
C19_Witness ==
    /\ n_pc = "derived"
    /\ n_field = "value"
    /\ n_changed = [n_note EXCEPT !.value = n_changed.value]
    /\ n_note.value # n_changed.value
    /\ n_nf.of_note # n_nf.of_changed


(* ============ properties of the randomness of a construction =========== *)
\* ActionInfo::build as one function of the ActionInfo and of the state of
\* the caller's randomness source
ActionInfo_build(info, rng) ==
    LET nf == BuildDeriveNf(info, ActionNote_commitment(info.spend.note))
        output_note ==
            ActionNote_new([send_com |-> info.output.addr_send_closed,
                            recv_vp |-> info.output.addr_recv_vp],
                           [token_vp |-> info.output.addr_token_vp],
                           info.output.value, BuildOutputRho(info, nf),
                           info.output.data, RngDraw(rng))
    IN  BuildAction(info, nf, ActionNote_commitment(output_note))

\* C20: a construction operation draws all its randomness from the caller's
\* source: the Action ActionInfo::build returns is a function of the
\* ActionInfo and of the state of the source, which build advances by its one
\* draw, and two calls of get_verifying_info on one VP, which are given equal
\* inputs and no source at all, return equal verifying infos.
C20_CallerSuppliedRandomness ==
    /\ a_pc = "done" =>
          /\ a_action = ActionInfo_build(a_info, RngNew(a_rng.seed))
          /\ a_rng = RngNext(RngNew(a_rng.seed))
    /\ Len(v_runs) = 2 => v_runs[1] = v_runs[2]


(* ============ properties of the notes handed to a construction ========= *)
\* C22: when the note arrays are handed to ShieldedPartialTransaction::build
\* or to a VP circuit, the rho of output note i is the nullifier input note i
\* has at that moment, for the token pair and the padding pair of
\* create_token_swap_ptx and for the notes of the signature VP test circuit.
C22_RhoIsCurrentNullifier ==
    /\ \A p \in 1..Len(t_pool) : \A i \in 1..NUM_NOTE :
          t_pool[p].outputs[i].note.rho = Note_get_nf(t_pool[p].inputs[i].note)
    /\ v_pc = "signed" /\ v_edit = NoEdit =>
          \A i \in 1..NUM_NOTE :
              v_circuit.output_notes[i].rho
                  = Note_get_nf(v_circuit.input_notes[i])


(* ================ properties of the API context ======================== *)
\* the positions of the leaves the last query asks for: filed in the
\* encrypted-notes directory, encrypted to the queried key, which the queried
\* secret opens, and of the queried type
WantedLeaves ==
    { i \in 1..Len(c_leaves) :
        /\ c_leaves[i] \in c_encrypted
        /\ c_leaves[i][2][2] = c_query.pk
        /\ PublicKey(c_query.sk) = c_query.pk
        /\ c_leaves[i][2][3] = c_query.name }

\* retrieve_owned_notes was called with a known name and a key that has
\* coordinates
KnownQuery ==
    /\ c_query.call = "retrieve_owned_notes"
    /\ c_query.name \in c_note_directory
    /\ c_query.pk # ApiIdentity

C26_FailuresAreErrorValues ==
    /\ c_out.kind # "panic"
    /\ ( /\ c_query.call = "retrieve_owned_notes"
         /\ c_query.name \notin c_note_directory )
          => c_out.kind = "RetrieveNoteError"
    /\ ( /\ c_query.call = "decrypt_note"
         /\ \/ c_query.note_comm \notin c_encrypted
            \/ c_query.note_comm[2][2] # c_query.pk
            \/ PublicKey(c_query.sk) # c_query.pk )
          => c_out.kind = "NoteDecryptionError"

(* ---------------------- the net value commitment ------------------------ *)
\* the base of a note, as NetValueCommitment::new derives it
ValueBaseOf(note) ==
    derivate_value_base(note.is_merkle_checked, note.app_vk, note.app_data_static)

\* C24: NetValueCommitment::new(input, output, blind_r) is
\* value(input)*base(input) - value(output)*base(output) + blind_r*R; for notes
\* of one application with equal values and blind_r = 0 it is the identity;
\* the sum of the commitments made is the commitment of the summed values and
\* summed blinds; get_x and get_y are defined for every commitment, zero at
\* the identity and the affine coordinates elsewhere.
C24_NetValueCommitmentAlgebra ==
    /\ \A k \in 1..Len(w_cvs) :
          /\ w_cvs[k].cv.g =
                w_cvs[k].input_note.value * ValueBaseOf(w_cvs[k].input_note).g
                - w_cvs[k].output_note.value * ValueBaseOf(w_cvs[k].output_note).g
          /\ w_cvs[k].cv.r =
                w_cvs[k].blind_r * NOTE_COMMITMENT_R_GENERATOR.r
                + w_cvs[k].input_note.value * ValueBaseOf(w_cvs[k].input_note).r
                - w_cvs[k].output_note.value * ValueBaseOf(w_cvs[k].output_note).r
          /\ (/\ w_cvs[k].input_note.app_vk = w_cvs[k].output_note.app_vk
              /\ w_cvs[k].input_note.value = w_cvs[k].output_note.value
              /\ w_cvs[k].blind_r = 0)
             => w_cvs[k].cv = PointIdentity
    /\ PointSum([k \in 1..Len(w_cvs) |-> w_cvs[k].cv]) =
          NetValueCommitment_new(
              [is_merkle_checked |-> TRUE, app_vk |-> COMPRESSED_TOKEN_VK,
               app_data_static |-> <<"zero">>,
               value |-> IntSum([k \in 1..Len(w_cvs) |-> w_cvs[k].input_note.value])],
              [is_merkle_checked |-> TRUE, app_vk |-> COMPRESSED_TOKEN_VK,
               app_data_static |-> <<"zero">>,
               value |-> IntSum([k \in 1..Len(w_cvs) |-> w_cvs[k].output_note.value])],
              IntSum([k \in 1..Len(w_cvs) |-> w_cvs[k].blind_r]))
    /\ w_xy # NoCoordinates =>
          /\ w_xy.x # <<"panic">>
          /\ w_xy.y # <<"panic">>
          /\ w_cvs[Len(w_cvs)].cv = PointIdentity
             => w_xy = [x |-> <<"zero">>, y |-> <<"zero">>]
          /\ w_cvs[Len(w_cvs)].cv # PointIdentity
             => /\ w_xy.x = AffineCoordinates(w_cvs[Len(w_cvs)].cv).x
                /\ w_xy.y = AffineCoordinates(w_cvs[Len(w_cvs)].cv).y

\* two commitments were made, the last one of equal values with no blind, and
\* its coordinates were read; the first one is not the identity
C24_Witness ==
    /\ Len(w_cvs) = NUM_NOTE
    /\ w_cvs[1].cv # PointIdentity
    /\ w_cvs[1].blind_r > 0
    /\ w_cvs[2].input_note.value = w_cvs[2].output_note.value
    /\ w_cvs[2].input_note.value > 0
    /\ w_cvs[2].blind_r = 0
    /\ w_xy = [x |-> <<"zero">>, y |-> <<"zero">>]

(* ------------------- the verifying infos of generate_proofs ------------- *)
\* the path the representation tag of a bytecode names, run on that bytecode
ProofByOwnTag(vp) ==
    IF vp.circuit.tag = "VampIR"
    THEN VampIR_from_file_and_prove(vp, String_from_utf8_lossy(vp.circuit.payload),
                                    String_from_utf8_lossy(vp.inputs))
    ELSE IF vp.circuit.tag = "Trivial"
         THEN Trivial_from_bytes_and_prove(vp, vp.inputs)
         ELSE ProofFailed("UnknownRepresentation")

\* verifying key, proof and public instance under one constructor
UniformInfo(info) ==
    /\ Len(info) = 3
    /\ info[1] = "VPVerifyingInfo"
    /\ info[2][1] = "vk"
    /\ info[3][1] = "proof"

\* C23: the set generate_proofs returns has exactly one governing info, made
\* from app_vp_bytecode, then exactly one auxiliary info per element of
\* dynamic_vp_bytecode in the same order; each is what the path named by that
\* bytecode's own tag produces, and all have one shape.
C23_OneInfoPerBytecodeInOrder ==
    b_pc = "done" =>
        /\ b_out = "NoteVPVerifyingInfoSet"
        /\ Len(b_infos) = 1 + Len(b_back.dynamic_vp_bytecode)
        /\ ProofByOwnTag(b_back.app_vp_bytecode) =
              [kind |-> "info", info |-> b_infos[1]]
        /\ \A k \in 1..Len(b_back.dynamic_vp_bytecode) :
              ProofByOwnTag(b_back.dynamic_vp_bytecode[k]) =
                 [kind |-> "info", info |-> b_infos[k + 1]]
        /\ \A k \in 1..Len(b_infos) : UniformInfo(b_infos[k])

\* generate_proofs returned for a governing VampIR bytecode and two different
\* auxiliary bytecodes, a trivial one first and the governing one again second
C23_Witness ==
    /\ b_pc = "done"
    /\ b_back.app_vp_bytecode.circuit.tag = "VampIR"
    /\ Len(b_back.dynamic_vp_bytecode) = 2
    /\ b_back.dynamic_vp_bytecode[1].circuit.tag = "Trivial"
    /\ b_back.dynamic_vp_bytecode[2].circuit.tag = "VampIR"
    /\ Len(b_infos) = 3
    /\ b_infos[2] # b_infos[3]
    /\ b_infos[1] = b_infos[3]

(* ----------------------------- padding ---------------------------------- *)
\* what the notes of slot i of a partial transaction add to the sum of value
\* commitments, the blind of the action set aside
SlotValueContribution(ptx, i) ==
    PointSub(PointMul(ValueBaseOf(ptx.inputs[i].note), ptx.inputs[i].note.value),
             PointMul(ValueBaseOf(ptx.outputs[i].note),
                      ptx.outputs[i].note.value))

\* the slots of a partial transaction filled with padding notes
PaddingSlots(ptx) ==
    { i \in 1..Len(ptx.inputs) :
        IsPadding(ptx.inputs[i]) /\ IsPadding(ptx.outputs[i]) }

\* C21: a partial transaction of one genuine pair of notes and explicit
\* padding notes, and the one of the same genuine notes and token notes of
\* value zero in the padding slots, give the same result of execute in every
\* enclosing transaction; the padding notes add the identity to the sum of
\* value commitments.
C21_PaddingNeutral ==
    /\ p_pc = "done" => p_result.padded = p_result.zeroed
    /\ p_pc \in {"enclose", "execute", "done"} =>
          /\ PaddingSlots(p_padded) = {NUM_NOTE}
          /\ PaddingSlots(p_zeroed) = {}
          /\ \A i \in PaddingSlots(p_padded) :
                /\ SlotValueContribution(p_padded, i) = PointIdentity
                /\ p_padded.actions[i].cv_net.g = 0
                /\ p_padded.actions[i].cv_net = p_zeroed.actions[i].cv_net
          /\ \A i \in 1..NUM_NOTE \ PaddingSlots(p_padded) :
                /\ p_padded.inputs[i] = p_zeroed.inputs[i]
                /\ p_padded.outputs[i] = p_zeroed.outputs[i]
                /\ p_padded.actions[i] = p_zeroed.actions[i]

\* both transactions were executed and accepted, a second party's partial
\* transaction in front, and the blind of the padding action is not zero
C21_Witness ==
    /\ p_pc = "done"
    /\ p_result.padded = "Ok"
    /\ Len(p_txs.padded.shielded) = 2
    /\ p_txs.padded.shielded[2] = p_padded
    /\ p_txs.zeroed.shielded[2] = p_zeroed
    /\ p_padded.actions[NUM_NOTE].cv_net # PointIdentity
    /\ p_padded.actions[NUM_NOTE].nf # p_zeroed.actions[NUM_NOTE].nf


====
